---- MODULE Spec2Model ----
(***************************************************************************)
(* Timing and synchronisation engine of the karaoke player.                *)
(*                                                                         *)
(*   - the timing builders of karaoke_player.py (character, word, line)    *)
(*     and of src/core/player.py (LyricsSync, character);                  *)
(*   - the cursor LyricsSync.get_current_items / reset;                    *)
(*   - the playback clock AudioPlayer.play / pause / stop / get_position.  *)
(*                                                                         *)
(* Times of words and events are integers in units of 1/600 s, so that     *)
(* 0.05 s = 30, 0.3 s = 180, 0.5 s = 300, 0.8 s = 480, and a word duration *)
(* that is a multiple of 60 divides evenly by text lengths 1..6.  The      *)
(* arithmetic is exact (rational), not IEEE floating point.                *)
(* The wall clock of the AudioPlayer is counted in whole seconds.          *)
(***************************************************************************)
EXTENDS Integers, Sequences, FiniteSets, TLC

VARIABLES
    \* ---- the transcription and the configuration (input of the builders)
    words,                \* list of whisper words [word, start, end]
    new_line_threshold,   \* Config.new_line_threshold / DisplayConfig.new_line_threshold
    max_line_length,      \* Config.max_line_length
    \* ---- result of a builder run (karaoke_player.py play_karaoke, 458-466)
    phase,                \* "input" | "built" | "sync" | "clock"
    display_mode,         \* which builder ran
    timings,              \* the list of (text, time, is_newline) it returned
    \* ---- LyricsSync
    sync_mode,            \* display_config.mode: "character" | "word"
    current_index,        \* LyricsSync.current_index
    character_timings,    \* LyricsSync._character_timings: None or the cached list
    items,                \* the list returned by the last get_current_items
    \* history of the cursor, for stating the properties
    taken,                \* indices (0-based) of the entries the last poll consumed
    emitted,              \* indices consumed by all polls since construction / reset
    lastOp,               \* "init" | "poll" | "reset": the last operation on the cursor
    lastPos,              \* position passed to the last poll
    rel,                  \* the last poll's position against the poll before it: "same" |
                          \* "less" | "greater", or "first" / "first_after_reset" when it
                          \* was the first poll since construction / since a reset
    monotone,             \* positions polled since construction / reset are non-decreasing
    rewound,              \* the last reset found current_index > 0
    \* ---- AudioPlayer
    state,                \* PlaybackState
    initialized,          \* AudioPlayer._initialized
    start_time,           \* AudioPlayer._start_time (None or an instant)
    pause_time,           \* AudioPlayer._pause_time (None or an instant)
    paused_duration,      \* AudioPlayer._paused_duration
    timing_offset,        \* AppConfig.timing_offset
    now,                  \* time.time()
    \* history of the clock, for stating the properties
    g_phase,              \* "none" | "playing" | "paused" | "off": position in play (pause play)*
    g_start,              \* instant of the play() that opened the session
    g_paused,             \* wall time spent paused in the session, counted tick by tick
    g_pause_at,           \* instant of the last pause() of the session (-1: none)
    g_resume_at,          \* instant of the last resuming play() of the session (-1: none)
    g_pos_at_pause,       \* get_position() read just before the last pause()
    lastCall,             \* the AudioPlayer method called last at the current instant
                          \* ("none": no call since the clock last advanced or
                          \* the music ended)
    callFrom,             \* the PlaybackState that call found
    raised,               \* the exception that call raised ("none": it returned)
    \* ---- GUIApplication (gui/application.py) and its playback thread
    is_playing,           \* GUIApplication.is_playing
    stop_btn,             \* state of the Stop button: "normal" | "disabled"
    busy,                 \* pygame.mixer.music.get_busy()
    pending,              \* callbacks posted with root.after(0, ...) and not yet run
    main_pc,              \* where the main thread stands inside _stop_playback ("idle":
                          \* between two events of the Tk main loop)
    thread_pc,            \* where playback_task stands ("none": no thread alive)
    task_position,        \* playback_task: the local position (seconds); inside
                          \* get_position, time.time() - self._start_time
    last_position,        \* playback_task: the local last_position (seconds)
    \* history of the playback session, for stating the properties
    delivered,            \* set of the indices of the entries handed to _append_lyrics
                          \* since the clock last started from scratch
    resumed,              \* the session has been paused and resumed (and not stopped)
    replayed,             \* an entry already in delivered has been handed over again
    read_paused,          \* _paused_duration at the instant get_position read _start_time
    outcome,              \* how the last get_position of the thread ended: "none" |
                          \* "zero" | "consistent" | "torn" | "TypeError"
    status_var,           \* GUIApplication.status_var: the text of the status bar
    \* ---- the playback loops of the command-line players
    loop_pc,              \* where the loop stands: "none" (not started) | "while" |
                          \* "body" | "wait" (the second loop) | "done"
    current_idx,          \* karaoke_player.py current_idx / lyrics_player.py
                          \* current_word_idx
    \* history of the loop, for stating the properties
    printed,              \* indices (0-based) of the entries printed, in order
    ended_seen            \* get_busy() / is_playing() has returned False to the loop

inputVars == <<words, new_line_threshold, max_line_length>>
buildVars == <<display_mode, timings>>
syncVars  == <<sync_mode, current_index, character_timings, items, taken, emitted,
               lastOp, lastPos, rel, monotone, rewound>>
clockVars == <<state, initialized, start_time, pause_time, paused_duration,
               timing_offset, now, g_phase, g_start, g_paused, g_pause_at,
               g_resume_at, g_pos_at_pause, lastCall, callFrom, raised>>
guiVars == <<is_playing, stop_btn, busy, pending, main_pc, thread_pc, task_position,
             last_position, delivered, resumed, replayed, read_paused, outcome,
             status_var>>
loopVars == <<loop_pc, current_idx, printed, ended_seen>>
vars == <<words, new_line_threshold, max_line_length, phase, display_mode, timings,
          sync_mode, current_index, character_timings, items, taken, emitted,
          lastOp, lastPos, rel, monotone, rewound,
          state, initialized, start_time, pause_time, paused_duration,
          timing_offset, now, g_phase, g_start, g_paused, g_pause_at,
          g_resume_at, g_pos_at_pause, lastCall, callFrom, raised,
          is_playing, stop_btn, busy, pending, main_pc, thread_pc, task_position,
          last_position, delivered, resumed, replayed, read_paused, outcome,
          status_var, loop_pc, current_idx, printed, ended_seen>>

\* an Optional value: None, or Some(x) holding x
None == <<>>

Some(x) == <<x>>

ValueOf(opt) == opt[1]

(***************************************************************************)
(* Bounds of the model and the input sets.                                 *)
(***************************************************************************)
MaxWords == 2
MaxNow == 6
MaxGuiNow == 2

\* word_start - 0.05 (karaoke_player.py 336, 386, 429; player.py 180)
NewlineLead == 30
\* gap > 0.3 (karaoke_player.py 329, 379, 420)
SoftGap == 180

\* raw whisper texts: a blank, a one-letter word, a two-letter word with the
\* leading blank whisper puts in front of words
TextChoices == { <<" ">>, <<"a">>, <<" ", "b", "c">> }
\* start of a word relative to the end of the word before it: an overlap, no gap,
\* 0.05 s, 0.35 s (above the soft gap), 0.5 s (a threshold exactly), 0.55 s
GapChoices == { -30, 0, 30, 210, 300, 330 }
\* end - start of a word: 0 s or 0.1 s
DurChoices == { 0, 60 }
\* new_line_threshold: 0.05 s and the default 0.5 s of karaoke_player.py
ThresholdChoices == { 30, 300 }
\* max_line_length: small enough for the length rules to fire on short inputs,
\* and the default 50 of karaoke_player.py
MaxLineChoices == { 2, 3, 50 }

(***************************************************************************)
(* Helpers                                                                 *)
(***************************************************************************)
NL == <<"\n">>

RECURSIVE lstrip(_)
lstrip(s) == IF s # <<>> /\ Head(s) = " " THEN lstrip(Tail(s)) ELSE s

RECURSIVE rstrip(_)
rstrip(s) == IF s # <<>> /\ s[Len(s)] = " " THEN rstrip(SubSeq(s, 1, Len(s) - 1)) ELSE s

\* str.strip()
strip(s) == rstrip(lstrip(s))

\* Word(text=word_data['word'].strip(), start=..., end=...)
Word(w) == [text |-> strip(w.word), start |-> w.start, end |-> w.end]

\* Transcriber.transcribe: the Word list of a Transcription
transcribe(ws) == [i \in 1..Len(ws) |-> Word(ws[i])]

\* Word.duration
duration(word) == word.end - word.start

\* timestamps of a list of (text, time, is_newline) are non-decreasing
Monotone(t) == \A i \in 1..(Len(t) - 1) : t[i][2] <= t[i + 1][2]

(***************************************************************************)
(* karaoke_player.py: KaraokePlayer._generate_character_timings            *)
(***************************************************************************)
\* the iteration with char_idx counted from 1: every character one char_duration late
KP_character_word_late(acc, ws, i, thr, mll) ==
    LET word_start == ws[i].start
        word_end   == ws[i].end
        word_text  == strip(ws[i].word)
        gap        == IF i > 1 THEN word_start - acc.last_word_end ELSE 0
        should_break ==
            /\ i > 1
            /\ \/ gap > thr
               \/ gap > SoftGap /\ 10 * acc.current_line_length > 7 * mll
               \/ acc.current_line_length > mll
        t1   == IF should_break
                THEN Append(acc.timings, <<NL, word_start - NewlineLead, TRUE>>)
                ELSE acc.timings
        cll1 == IF should_break THEN 0 ELSE acc.current_line_length
        n    == Len(word_text)
        chars == [k \in 1..n |->
                    <<<<word_text[k]>>,
                      word_start + k * ((word_end - word_start) \div n),
                      FALSE>>]
        space == IF i - 1 < Len(ws) - 1 THEN << <<<<" ">>, word_end, FALSE>> >> ELSE <<>>
    IN  IF n > 0
        THEN [timings |-> t1 \o chars \o space,
              current_line_length |-> cll1 + n + Len(space),
              last_word_end |-> word_end]
        ELSE [timings |-> t1,
              current_line_length |-> cll1,
              last_word_end |-> word_end]

\* the iteration that adds the space after the last word as well
KP_character_word_trailing(acc, ws, i, thr, mll) ==
    LET word_start == ws[i].start
        word_end   == ws[i].end
        word_text  == strip(ws[i].word)
        gap        == IF i > 1 THEN word_start - acc.last_word_end ELSE 0
        should_break ==
            /\ i > 1
            /\ \/ gap > thr
               \/ gap > SoftGap /\ 10 * acc.current_line_length > 7 * mll
               \/ acc.current_line_length > mll
        t1   == IF should_break
                THEN Append(acc.timings, <<NL, word_start - NewlineLead, TRUE>>)
                ELSE acc.timings
        cll1 == IF should_break THEN 0 ELSE acc.current_line_length
        n    == Len(word_text)
        chars == [k \in 1..n |->
                    <<<<word_text[k]>>,
                      word_start + (k - 1) * ((word_end - word_start) \div n),
                      FALSE>>]
        space == << <<<<" ">>, word_end, FALSE>> >>
    IN  IF n > 0
        THEN [timings |-> t1 \o chars \o space,
              current_line_length |-> cll1 + n + Len(space),
              last_word_end |-> word_end]
        ELSE [timings |-> t1,
              current_line_length |-> cll1,
              last_word_end |-> word_end]

\* one iteration of the for loop over the words (i is word_idx + 1)
KP_character_word(acc, ws, i, thr, mll) ==
    LET word_start == ws[i].start
        word_end   == ws[i].end
        word_text  == strip(ws[i].word)
        gap        == IF i > 1 THEN word_start - acc.last_word_end ELSE 0
        should_break ==
            /\ i > 1
            /\ \/ gap > thr
               \/ gap > SoftGap /\ 10 * acc.current_line_length > 7 * mll
               \/ acc.current_line_length > mll
        t1   == IF should_break
                THEN Append(acc.timings, <<NL, word_start - NewlineLead, TRUE>>)
                ELSE acc.timings
        cll1 == IF should_break THEN 0 ELSE acc.current_line_length
        n    == Len(word_text)
        chars == [k \in 1..n |->
                    <<<<word_text[k]>>,
                      word_start + (k - 1) * ((word_end - word_start) \div n),
                      FALSE>>]
        space == IF i - 1 < Len(ws) - 1 THEN << <<<<" ">>, word_end, FALSE>> >> ELSE <<>>
    IN  IF n > 0
        THEN [timings |-> t1 \o chars \o space,
              current_line_length |-> cll1 + n + Len(space),
              last_word_end |-> word_end]
        ELSE [timings |-> t1,
              current_line_length |-> cll1,
              last_word_end |-> word_end]

RECURSIVE KP_character_loop(_, _, _, _, _)
KP_character_loop(acc, ws, i, thr, mll) ==
    IF i > Len(ws) THEN acc
    ELSE KP_character_loop(KP_character_word(acc, ws, i, thr, mll), ws, i + 1, thr, mll)

generate_character_timings(ws, thr, mll) ==
    KP_character_loop([timings |-> <<>>, current_line_length |-> 0, last_word_end |-> 0],
                      ws, 1, thr, mll).timings

(***************************************************************************)
(* karaoke_player.py: KaraokePlayer._generate_word_timings                 *)
(***************************************************************************)
\* the iteration with the hard break taken at gap >= threshold
KP_word_word_tie(acc, ws, i, thr, mll) ==
    LET word_start == ws[i].start
        word_end   == ws[i].end
        word_text  == strip(ws[i].word)
        gap        == IF i > 1 THEN word_start - acc.last_word_end ELSE 0
        should_break ==
            /\ i > 1
            /\ \/ gap >= thr
               \/ gap > SoftGap /\ 10 * acc.current_line_length > 7 * mll
               \/ acc.current_line_length + Len(word_text) > mll
        t1   == IF should_break
                THEN Append(acc.timings, <<NL, word_start - NewlineLead, TRUE>>)
                ELSE acc.timings
        cll1 == IF should_break THEN 0 ELSE acc.current_line_length
    IN  IF word_text # <<>>
        THEN [timings |-> Append(t1, <<word_text \o <<" ">>, word_start, FALSE>>),
              current_line_length |-> cll1 + Len(word_text) + 1,
              last_word_end |-> word_end]
        ELSE [timings |-> t1,
              current_line_length |-> cll1,
              last_word_end |-> word_end]

\* the iteration that emits the word without the space after it
KP_word_word_nospace(acc, ws, i, thr, mll) ==
    LET word_start == ws[i].start
        word_end   == ws[i].end
        word_text  == strip(ws[i].word)
        gap        == IF i > 1 THEN word_start - acc.last_word_end ELSE 0
        should_break ==
            /\ i > 1
            /\ \/ gap > thr
               \/ gap > SoftGap /\ 10 * acc.current_line_length > 7 * mll
               \/ acc.current_line_length + Len(word_text) > mll
        t1   == IF should_break
                THEN Append(acc.timings, <<NL, word_start - NewlineLead, TRUE>>)
                ELSE acc.timings
        cll1 == IF should_break THEN 0 ELSE acc.current_line_length
    IN  IF word_text # <<>>
        THEN [timings |-> Append(t1, <<word_text, word_start, FALSE>>),
              current_line_length |-> cll1 + Len(word_text) + 1,
              last_word_end |-> word_end]
        ELSE [timings |-> t1,
              current_line_length |-> cll1,
              last_word_end |-> word_end]

\* the iteration with the forced break decided on the line alone, as the
\* character builder decides it
KP_word_word_forced(acc, ws, i, thr, mll) ==
    LET word_start == ws[i].start
        word_end   == ws[i].end
        word_text  == strip(ws[i].word)
        gap        == IF i > 1 THEN word_start - acc.last_word_end ELSE 0
        should_break ==
            /\ i > 1
            /\ \/ gap > thr
               \/ gap > SoftGap /\ 10 * acc.current_line_length > 7 * mll
               \/ acc.current_line_length > mll
        t1   == IF should_break
                THEN Append(acc.timings, <<NL, word_start - NewlineLead, TRUE>>)
                ELSE acc.timings
        cll1 == IF should_break THEN 0 ELSE acc.current_line_length
    IN  IF word_text # <<>>
        THEN [timings |-> Append(t1, <<word_text \o <<" ">>, word_start, FALSE>>),
              current_line_length |-> cll1 + Len(word_text) + 1,
              last_word_end |-> word_end]
        ELSE [timings |-> t1,
              current_line_length |-> cll1,
              last_word_end |-> word_end]

KP_word_word(acc, ws, i, thr, mll) ==
    LET word_start == ws[i].start
        word_end   == ws[i].end
        word_text  == strip(ws[i].word)
        gap        == IF i > 1 THEN word_start - acc.last_word_end ELSE 0
        should_break ==
            /\ i > 1
            /\ \/ gap > thr
               \/ gap > SoftGap /\ 10 * acc.current_line_length > 7 * mll
               \/ acc.current_line_length + Len(word_text) > mll
        t1   == IF should_break
                THEN Append(acc.timings, <<NL, word_start - NewlineLead, TRUE>>)
                ELSE acc.timings
        cll1 == IF should_break THEN 0 ELSE acc.current_line_length
    IN  IF word_text # <<>>
        THEN [timings |-> Append(t1, <<word_text \o <<" ">>, word_start, FALSE>>),
              current_line_length |-> cll1 + Len(word_text) + 1,
              last_word_end |-> word_end]
        ELSE [timings |-> t1,
              current_line_length |-> cll1,
              last_word_end |-> word_end]

RECURSIVE KP_word_loop(_, _, _, _, _)
KP_word_loop(acc, ws, i, thr, mll) ==
    IF i > Len(ws) THEN acc
    ELSE KP_word_loop(KP_word_word(acc, ws, i, thr, mll), ws, i + 1, thr, mll)

generate_word_timings(ws, thr, mll) ==
    KP_word_loop([timings |-> <<>>, current_line_length |-> 0, last_word_end |-> 0],
                 ws, 1, thr, mll).timings

(***************************************************************************)
(* karaoke_player.py: KaraokePlayer._generate_line_timings                 *)
(***************************************************************************)
\* ' '.join(current_line)
RECURSIVE join(_)
join(line) ==
    IF line = <<>> THEN <<>>
    ELSE IF Len(line) = 1 THEN line[1]
    ELSE line[1] \o <<" ">> \o join(Tail(line))

\* the line builder with the forced break of the character builder: the line is
\* tested before the word is added
KP_line_word_late(acc, ws, i, thr, mll) ==
    LET word_start == ws[i].start
        word_end   == ws[i].end
        word_text  == strip(ws[i].word)
        gap        == IF i > 1 THEN word_start - acc.last_word_end ELSE 0
        should_break ==
            /\ i > 1
            /\ \/ gap > thr
               \/ gap > SoftGap /\ 10 * acc.current_line_length > 7 * mll
               \/ acc.current_line_length > mll
        flush == should_break /\ acc.current_line # <<>>
        t1   == IF flush
                THEN acc.timings \o << <<join(acc.current_line), acc.line_start, FALSE>>,
                                       <<NL, word_start - NewlineLead, TRUE>> >>
                ELSE acc.timings
        line1 == IF flush THEN <<>> ELSE acc.current_line
        cll1  == IF flush THEN 0 ELSE acc.current_line_length
        ls1   == IF line1 = <<>> THEN word_start ELSE acc.line_start
    IN  [timings |-> t1,
         current_line |-> IF word_text # <<>> THEN Append(line1, word_text) ELSE line1,
         line_start |-> ls1,
         current_line_length |->
             IF word_text # <<>> THEN cll1 + Len(word_text) + 1 ELSE cll1,
         last_word_end |-> word_end]

\* the iteration with the Newline stamped at the start of the word itself
KP_line_word_nolead(acc, ws, i, thr, mll) ==
    LET word_start == ws[i].start
        word_end   == ws[i].end
        word_text  == strip(ws[i].word)
        gap        == IF i > 1 THEN word_start - acc.last_word_end ELSE 0
        should_break ==
            /\ i > 1
            /\ \/ gap > thr
               \/ gap > SoftGap /\ 10 * acc.current_line_length > 7 * mll
               \/ acc.current_line_length + Len(word_text) > mll
        flush == should_break /\ acc.current_line # <<>>
        t1   == IF flush
                THEN acc.timings \o << <<join(acc.current_line), acc.line_start, FALSE>>,
                                       <<NL, word_start, TRUE>> >>
                ELSE acc.timings
        line1 == IF flush THEN <<>> ELSE acc.current_line
        cll1  == IF flush THEN 0 ELSE acc.current_line_length
        ls1   == IF line1 = <<>> THEN word_start ELSE acc.line_start
    IN  [timings |-> t1,
         current_line |-> IF word_text # <<>> THEN Append(line1, word_text) ELSE line1,
         line_start |-> ls1,
         current_line_length |->
             IF word_text # <<>> THEN cll1 + Len(word_text) + 1 ELSE cll1,
         last_word_end |-> word_end]

KP_line_word(acc, ws, i, thr, mll) ==
    LET word_start == ws[i].start
        word_end   == ws[i].end
        word_text  == strip(ws[i].word)
        gap        == IF i > 1 THEN word_start - acc.last_word_end ELSE 0
        should_break ==
            /\ i > 1
            /\ \/ gap > thr
               \/ gap > SoftGap /\ 10 * acc.current_line_length > 7 * mll
               \/ acc.current_line_length + Len(word_text) > mll
        flush == should_break /\ acc.current_line # <<>>
        t1   == IF flush
                THEN acc.timings \o << <<join(acc.current_line), acc.line_start, FALSE>>,
                                       <<NL, word_start - NewlineLead, TRUE>> >>
                ELSE acc.timings
        line1 == IF flush THEN <<>> ELSE acc.current_line
        cll1  == IF flush THEN 0 ELSE acc.current_line_length
        ls1   == IF line1 = <<>> THEN word_start ELSE acc.line_start
    IN  [timings |-> t1,
         current_line |-> IF word_text # <<>> THEN Append(line1, word_text) ELSE line1,
         line_start |-> ls1,
         current_line_length |->
             IF word_text # <<>> THEN cll1 + Len(word_text) + 1 ELSE cll1,
         last_word_end |-> word_end]

RECURSIVE KP_line_loop(_, _, _, _, _)
KP_line_loop(acc, ws, i, thr, mll) ==
    IF i > Len(ws) THEN acc
    ELSE KP_line_loop(KP_line_word(acc, ws, i, thr, mll), ws, i + 1, thr, mll)

\* the builder without the final flush
generate_line_timings_noflush(ws, thr, mll) ==
    KP_line_loop([timings |-> <<>>, current_line |-> <<>>, line_start |-> 0,
                  current_line_length |-> 0, last_word_end |-> 0],
                 ws, 1, thr, mll).timings

\* the builder that appends the final line without looking whether it holds a word
generate_line_timings_always(ws, thr, mll) ==
    LET acc == KP_line_loop([timings |-> <<>>, current_line |-> <<>>, line_start |-> 0,
                             current_line_length |-> 0, last_word_end |-> 0],
                            ws, 1, thr, mll)
    IN  Append(acc.timings, <<join(acc.current_line), acc.line_start, FALSE>>)

generate_line_timings(ws, thr, mll) ==
    LET acc == KP_line_loop([timings |-> <<>>, current_line |-> <<>>, line_start |-> 0,
                             current_line_length |-> 0, last_word_end |-> 0],
                            ws, 1, thr, mll)
    IN  IF acc.current_line # <<>>
        THEN Append(acc.timings, <<join(acc.current_line), acc.line_start, FALSE>>)
        ELSE acc.timings

(***************************************************************************)
(* src/core/player.py: LyricsSync._generate_character_timings              *)
(* (tws is transcription.words, a list of Word)                            *)
(***************************************************************************)
\* the iteration that adds the space after a word whether or not the word has
\* a text
LS_character_word_blankspace(acc, tws, i, thr) ==
    LET word == tws[i]
        gap  == word.start - acc.last_word_end
        t1   == IF i > 1 /\ gap > thr
                THEN Append(acc.timings, <<NL, word.start - NewlineLead, TRUE>>)
                ELSE acc.timings
        n    == Len(word.text)
        chars == [k \in 1..n |->
                    <<<<word.text[k]>>, word.start + (k - 1) * (duration(word) \div n), FALSE>>]
        space == IF i - 1 < Len(tws) - 1 THEN << <<<<" ">>, word.end, FALSE>> >> ELSE <<>>
    IN  [timings |-> IF n > 0 THEN t1 \o chars \o space ELSE t1 \o space,
         last_word_end |-> word.end]

\* the iteration with the Newline stamped at word.start
LS_character_word_nolead(acc, tws, i, thr) ==
    LET word == tws[i]
        gap  == word.start - acc.last_word_end
        t1   == IF i > 1 /\ gap > thr
                THEN Append(acc.timings, <<NL, word.start, TRUE>>)
                ELSE acc.timings
        n    == Len(word.text)
        chars == [k \in 1..n |->
                    <<<<word.text[k]>>, word.start + (k - 1) * (duration(word) \div n), FALSE>>]
        space == IF i - 1 < Len(tws) - 1 THEN << <<<<" ">>, word.end, FALSE>> >> ELSE <<>>
    IN  [timings |-> IF n > 0 THEN t1 \o chars \o space ELSE t1,
         last_word_end |-> word.end]

LS_character_word(acc, tws, i, thr) ==
    LET word == tws[i]
        gap  == word.start - acc.last_word_end
        t1   == IF i > 1 /\ gap > thr
                THEN Append(acc.timings, <<NL, word.start - NewlineLead, TRUE>>)
                ELSE acc.timings
        n    == Len(word.text)
        chars == [k \in 1..n |->
                    <<<<word.text[k]>>, word.start + (k - 1) * (duration(word) \div n), FALSE>>]
        space == IF i - 1 < Len(tws) - 1 THEN << <<<<" ">>, word.end, FALSE>> >> ELSE <<>>
    IN  [timings |-> IF n > 0 THEN t1 \o chars \o space ELSE t1,
         last_word_end |-> word.end]

RECURSIVE LS_character_loop(_, _, _, _)
LS_character_loop(acc, tws, i, thr) ==
    IF i > Len(tws) THEN acc
    ELSE LS_character_loop(LS_character_word(acc, tws, i, thr), tws, i + 1, thr)

\* the list computed at lines 172-196 (the cache of lines 169-170 and 198 is
\* in get_current_items below)
LS_generate_character_timings(tws, thr) ==
    LS_character_loop([timings |-> <<>>, last_word_end |-> 0], tws, 1, thr).timings

(***************************************************************************)
(* The playback variants that decide the breaks while they play.  What     *)
(* they hand to the display is listed as (text, time, is_newline), the     *)
(* time being the start of the word whose turn produced the item.          *)
(***************************************************************************)
\* src/core/player.py: the while loop of LyricsSync.get_current_items in word
\* mode (226-240), run over the whole transcription
RECURSIVE LS_word_play(_, _, _)
LS_word_play(tws, idx, thr) ==
    IF idx >= Len(tws) THEN <<>>
    ELSE LET word == tws[idx + 1]
             line_break == idx > 0 /\ word.start - tws[idx].end > thr
         IN  (IF line_break THEN << <<NL, word.start, TRUE>> >> ELSE <<>>)
             \o << <<word.text \o <<" ">>, word.start, FALSE>> >>
             \o LS_word_play(tws, idx + 1, thr)

\* lyrics_player.py: what the loop of KaraokePlayer.play_karaoke (186-208)
\* prints when the audio outlasts the words
RECURSIVE LP_play(_, _, _, _)
LP_play(ws, current_word_idx, last_word_end, thr) ==
    IF current_word_idx >= Len(ws) THEN <<>>
    ELSE LET word_info  == ws[current_word_idx + 1]
             word_start == word_info.start
             word_text  == strip(word_info.word)
             gap        == word_start - last_word_end
         IN  (IF current_word_idx > 0 /\ gap > thr
              THEN << <<NL, word_start, TRUE>> >> ELSE <<>>)
             \o << <<word_text \o <<" ">>, word_start, FALSE>> >>
             \o LP_play(ws, current_word_idx + 1, word_info.end, thr)

(***************************************************************************)
(* The input: a transcription built word by word, and a configuration.     *)
(* Whisper reports words in the order they are spoken: start is            *)
(* non-decreasing and end >= start; a word may start before the word       *)
(* before it has ended.                                                    *)
(***************************************************************************)
SyncIdle ==
    /\ sync_mode = "none"
    /\ current_index = 0
    /\ character_timings = None
    /\ items = <<>>
    /\ taken = <<>>
    /\ emitted = <<>>
    /\ lastOp = "init"
    /\ lastPos = 0
    /\ rel = "none"
    /\ monotone = TRUE
    /\ rewound = FALSE

ClockIdle ==
    /\ state = "stopped"
    /\ initialized = FALSE
    /\ start_time = None
    /\ pause_time = None
    /\ paused_duration = 0
    /\ timing_offset = 0
    /\ now = 0
    /\ g_phase = "none"
    /\ g_start = 0
    /\ g_paused = 0
    /\ g_pause_at = -1
    /\ g_resume_at = -1
    /\ g_pos_at_pause = 0
    /\ lastCall = "none"
    /\ callFrom = "none"
    /\ raised = "none"

GuiIdle ==
    /\ is_playing = FALSE
    /\ stop_btn = "disabled"
    /\ busy = FALSE
    /\ pending = {}
    /\ main_pc = "idle"
    /\ thread_pc = "none"
    /\ task_position = 0
    /\ last_position = 0
    /\ delivered = {}
    /\ resumed = FALSE
    /\ replayed = FALSE
    /\ read_paused = 0
    /\ outcome = "none"
    /\ status_var = "Ready"

LoopIdle ==
    /\ loop_pc = "none"
    /\ current_idx = 0
    /\ printed = <<>>
    /\ ended_seen = FALSE

InputIdle ==
    /\ words = <<>>
    /\ new_line_threshold = 0
    /\ max_line_length = 0
    /\ display_mode = "none"
    /\ timings = <<>>

\* the transcription gains one more word
AddWordFrom(Gaps, Durs, Texts) ==
    /\ phase = "input"
    /\ Len(words) < MaxWords
    /\ \E g \in Gaps, d \in Durs, t \in Texts :
          LET prev_end   == IF words = <<>> THEN 0 ELSE words[Len(words)].end
              prev_start == IF words = <<>> THEN 0 ELSE words[Len(words)].start
              s == prev_end + g
          IN  /\ s >= prev_start
              /\ words' = Append(words, [word |-> t, start |-> s, end |-> s + d])
    /\ UNCHANGED <<new_line_threshold, max_line_length, phase>>
    /\ UNCHANGED buildVars
    /\ UNCHANGED syncVars
    /\ UNCHANGED clockVars
    /\ UNCHANGED guiVars
    /\ UNCHANGED loopVars

(***************************************************************************)
(* Specification of the builders: KaraokePlayer.play_karaoke picks the     *)
(* builder of the configured display mode (karaoke_player.py 458-466);     *)
(* LyricsSync builds its character timings on its own.                     *)
(***************************************************************************)
InitBuild ==
    /\ words = <<>>
    /\ new_line_threshold \in ThresholdChoices
    /\ max_line_length \in MaxLineChoices
    /\ phase = "input"
    /\ display_mode = "none"
    /\ timings = <<>>
    /\ SyncIdle
    /\ ClockIdle
    /\ GuiIdle
    /\ LoopIdle

AddWord == AddWordFrom(GapChoices, DurChoices, TextChoices)

\* corrupt upstream data: a word that ends 0.1 s before it starts.  Nothing
\* between whisper and the builders looks at end - start (karaoke_player.py
\* 315-316; transcriber.py 22-31, 220-225)
CorruptGapChoices == { 60 }
CorruptDurChoices == { -60 }
CorruptTextChoices == { <<"a">> }

AddCorruptWord == AddWordFrom(CorruptGapChoices, CorruptDurChoices, CorruptTextChoices)

\* the word lists of the specification's examples: Hello 0.0-0.5, world 0.6-1.0
\* (scenarios A and B) and the single-character word I 1.0-1.1
ScenarioA ==
    << [word |-> <<"H", "e", "l", "l", "o">>, start |-> 0, end |-> 300],
       [word |-> <<"w", "o", "r", "l", "d">>, start |-> 360, end |-> 600] >>

SingleI == << [word |-> <<"I">>, start |-> 600, end |-> 660] >>

\* thresholds of the examples: 0.05 s (scenario B), 0.1 s (the gap of the two
\* words exactly), and the defaults 0.5 s (karaoke_player.py) and 0.8 s (config.py)
ScenarioThresholdChoices == { 30, 60, 300, 480 }

\* a word longer than the lines of the configuration, then a short one
LongWords ==
    << [word |-> <<"H", "e", "l", "l", "o">>, start |-> 0, end |-> 300],
       [word |-> <<"a">>, start |-> 360, end |-> 420] >>

\* three short words, back to back
ShortWords ==
    << [word |-> <<"b", "c">>, start |-> 0, end |-> 60],
       [word |-> <<"a">>, start |-> 60, end |-> 120],
       [word |-> <<"a">>, start |-> 120, end |-> 180] >>

\* the lines are short: the transcription is the long word and its follower, or
\* the three short words
ScenarioShortLines ==
    /\ phase = "input"
    /\ words = <<>>
    /\ max_line_length < Len(LongWords[1].word)
    /\ words' \in { LongWords, ShortWords }
    /\ UNCHANGED <<new_line_threshold, max_line_length, phase>>
    /\ UNCHANGED buildVars
    /\ UNCHANGED syncVars
    /\ UNCHANGED clockVars
    /\ UNCHANGED guiVars
    /\ UNCHANGED loopVars

\* two words of 0.1 s, the second starting 0.05 s before the first ends
OverlapWords ==
    << [word |-> <<"a">>, start |-> 0, end |-> 60],
       [word |-> <<"a">>, start |-> 30, end |-> 90] >>

\* a threshold below zero, -0.1 s: get_user_config takes any float
\* (karaoke_player.py 578-581), and nothing checks AppConfig's either
NegativeThresholdChoices == { -60 }

\* the transcription is the two overlapping words, the threshold is negative
ScenarioOverlap ==
    /\ phase = "input"
    /\ words = <<>>
    /\ words' = OverlapWords
    /\ new_line_threshold' \in NegativeThresholdChoices
    /\ UNCHANGED <<max_line_length, phase>>
    /\ UNCHANGED buildVars
    /\ UNCHANGED syncVars
    /\ UNCHANGED clockVars
    /\ UNCHANGED guiVars
    /\ UNCHANGED loopVars

\* the transcription is one of the examples, under the default max_line_length
ScenarioWords ==
    /\ phase = "input"
    /\ words = <<>>
    /\ max_line_length = 50
    /\ words' \in { ScenarioA, SingleI }
    /\ new_line_threshold' \in ScenarioThresholdChoices
    /\ UNCHANGED <<max_line_length, phase>>
    /\ UNCHANGED buildVars
    /\ UNCHANGED syncVars
    /\ UNCHANGED clockVars
    /\ UNCHANGED guiVars
    /\ UNCHANGED loopVars

Built(mode, t) ==
    /\ phase = "input"
    /\ phase' = "built"
    /\ display_mode' = mode
    /\ timings' = t
    /\ UNCHANGED inputVars
    /\ UNCHANGED syncVars
    /\ UNCHANGED clockVars
    /\ UNCHANGED guiVars
    /\ UNCHANGED loopVars

BuildCharacter ==
    Built("character", generate_character_timings(words, new_line_threshold, max_line_length))

BuildWord ==
    Built("word", generate_word_timings(words, new_line_threshold, max_line_length))

BuildLine ==
    Built("line", generate_line_timings(words, new_line_threshold, max_line_length))

BuildSyncCharacter ==
    Built("sync_character",
          LS_generate_character_timings(transcribe(words), new_line_threshold))

\* what one of the builders and players makes of a word list
BuiltBy(mode, ws, thr, mll) ==
    CASE mode = "character" -> generate_character_timings(ws, thr, mll)
      [] mode = "word" -> generate_word_timings(ws, thr, mll)
      [] mode = "line" -> generate_line_timings(ws, thr, mll)
      [] mode = "sync_character" -> LS_generate_character_timings(transcribe(ws), thr)
      [] mode = "sync_word" -> LS_word_play(transcribe(ws), 0, thr)
      [] mode = "lyrics_player" -> LP_play(ws, 0, 0, thr)

PlaySyncWord == Built("sync_word", BuiltBy("sync_word", words, new_line_threshold, 0))

PlayLyricsPlayer ==
    Built("lyrics_player", BuiltBy("lyrics_player", words, new_line_threshold, 0))

NextBuild ==
    \/ AddWord
    \/ AddCorruptWord
    \/ ScenarioWords
    \/ ScenarioShortLines
    \/ ScenarioOverlap
    \/ BuildCharacter
    \/ BuildWord
    \/ BuildLine
    \/ BuildSyncCharacter
    \/ PlaySyncWord
    \/ PlayLyricsPlayer

SpecBuild == InitBuild /\ [][NextBuild]_vars

\* every word lasts, and starts no earlier than the word before it ends
WellSeparated(ws) ==
    /\ \A i \in 1..Len(ws) : ws[i].end > ws[i].start
    /\ \A i \in 1..(Len(ws) - 1) : ws[i + 1].start >= ws[i].end

(***************************************************************************)
(* C1: for any timeline produced by a builder, the timestamps of adjacent  *)
(* events are non-decreasing: e[i].timestamp <= e[i+1].timestamp,          *)
(* Newline events included.  Stated for the word lists that are beyond     *)
(* dispute: time-ordered words that last and do not overlap.               *)
(***************************************************************************)
C1_Monotonicity == (phase = "built" /\ WellSeparated(words)) => Monotone(timings)

(***************************************************************************)
(* src/core/player.py: LyricsSync                                          *)
(***************************************************************************)
\* the inputs of the cursor runs: an overlap, no gap, 0.85 s (above the default
\* threshold 0.8 s of DisplayConfig); words of 0.1 s; non-blank texts
SyncGapChoices == { -30, 0, 510 }
SyncDurChoices == { 60 }
SyncTextChoices == { <<"a">>, <<" ", "b", "c">> }
SyncThresholdChoices == { 480 }

\* self.transcription.words
transcription_words == transcribe(words)

\* the while loop of lines 216-223 from index idx (acc: what it has appended;
\* acc.taken records which entry each item came from)
RECURSIVE LS_character_scan(_, _, _, _)
LS_character_scan(char_timings, idx, position, acc) ==
    IF idx < Len(char_timings) /\ position >= char_timings[idx + 1][2]
    THEN LS_character_scan(char_timings, idx + 1, position,
            [items |-> Append(acc.items, <<char_timings[idx + 1][1], char_timings[idx + 1][3]>>),
             taken |-> Append(acc.taken, idx)])
    ELSE [items |-> acc.items, taken |-> acc.taken, index |-> idx]

\* the while loop of lines 226-240 from index idx
RECURSIVE LS_word_scan(_, _, _, _, _)
LS_word_scan(tws, idx, position, thr, acc) ==
    IF idx < Len(tws) /\ position >= tws[idx + 1].start
    THEN LET word == tws[idx + 1]
             line_break == idx > 0 /\ word.start - tws[idx].end > thr
             its == IF line_break THEN Append(acc.items, <<NL, TRUE>>) ELSE acc.items
         IN  LS_word_scan(tws, idx + 1, position, thr,
                [items |-> Append(its, <<word.text \o <<" ">>, FALSE>>),
                 taken |-> Append(acc.taken, idx)])
    ELSE [items |-> acc.items, taken |-> acc.taken, index |-> idx]

\* get_current_items with the comparison made 0.05 s ahead of the entry's time
get_current_items_early(position) ==
    LET r == IF sync_mode = "character"
             THEN LS_character_scan(
                      LS_generate_character_timings(transcription_words, new_line_threshold),
                      current_index, position + NewlineLead, [items |-> <<>>, taken |-> <<>>])
             ELSE LS_word_scan(transcription_words, current_index, position + NewlineLead,
                               new_line_threshold, [items |-> <<>>, taken |-> <<>>])
    IN  [items |-> r.items, taken |-> r.taken, index |-> r.index,
         character_timings |->
             IF sync_mode = "character"
             THEN Some(LS_generate_character_timings(transcription_words, new_line_threshold))
             ELSE character_timings]

\* get_current_items scanning from the first entry instead of current_index
get_current_items_rescan(position) ==
    LET r == IF sync_mode = "character"
             THEN LS_character_scan(
                      LS_generate_character_timings(transcription_words, new_line_threshold),
                      0, position, [items |-> <<>>, taken |-> <<>>])
             ELSE LS_word_scan(transcription_words, 0, position,
                               new_line_threshold, [items |-> <<>>, taken |-> <<>>])
    IN  [items |-> r.items, taken |-> r.taken, index |-> r.index,
         character_timings |->
             IF sync_mode = "character"
             THEN Some(LS_generate_character_timings(transcription_words, new_line_threshold))
             ELSE character_timings]

\* get_current_items with "if" in place of "while": at most one entry per call
get_current_items_one(position) ==
    LET t == IF sync_mode = "character"
             THEN LS_generate_character_timings(transcription_words, new_line_threshold)
             ELSE <<>>
        due == IF sync_mode = "character"
               THEN current_index < Len(t) /\ position >= t[current_index + 1][2]
               ELSE current_index < Len(transcription_words)
                    /\ position >= transcription_words[current_index + 1].start
    IN  [items |-> IF ~due THEN <<>>
                   ELSE IF sync_mode = "character"
                   THEN << <<t[current_index + 1][1], t[current_index + 1][3]>> >>
                   ELSE << <<transcription_words[current_index + 1].text \o <<" ">>, FALSE>> >>,
         taken |-> IF due THEN <<current_index>> ELSE <<>>,
         index |-> IF due THEN current_index + 1 ELSE current_index,
         character_timings |-> IF sync_mode = "character" THEN Some(t) ELSE character_timings]

\* LyricsSync.get_current_items(position): the items returned, the new
\* current_index and the new _character_timings
get_current_items(position) ==
    IF sync_mode = "character"
    THEN LET char_timings ==
                 IF character_timings # None THEN ValueOf(character_timings)
                 ELSE LS_generate_character_timings(transcription_words, new_line_threshold)
             r == LS_character_scan(char_timings, current_index, position,
                                    [items |-> <<>>, taken |-> <<>>])
         IN  [items |-> r.items, taken |-> r.taken, index |-> r.index,
              character_timings |-> Some(char_timings)]
    ELSE LET r == LS_word_scan(transcription_words, current_index, position,
                               new_line_threshold, [items |-> <<>>, taken |-> <<>>])
         IN  [items |-> r.items, taken |-> r.taken, index |-> r.index,
              character_timings |-> character_timings]

\* the sequence the cursor consumes in the configured mode, as (time, ...) entries:
\* the character timings, or the words (stamped at word.start)
EntryTimes ==
    IF sync_mode = "character"
    THEN LET t == LS_generate_character_timings(transcription_words, new_line_threshold)
         IN  [j \in 1..Len(t) |-> t[j][2]]
    ELSE [j \in 1..Len(words) |-> transcription_words[j].start]

\* positions that tell apart every outcome of the comparisons position >= time:
\* each entry's time, and an instant before all of them
Positions == {-1} \cup { EntryTimes[j] : j \in 1..Len(EntryTimes) }

\* LyricsSync.__init__ (155-160), the display mode being mode
Construct(mode) ==
    /\ phase = "input"
    /\ phase' = "sync"
    /\ sync_mode' = mode
    /\ current_index' = 0
    /\ character_timings' = None
    /\ UNCHANGED <<items, taken, emitted, lastOp, lastPos, rel, monotone, rewound>>
    /\ UNCHANGED inputVars
    /\ UNCHANGED buildVars
    /\ UNCHANGED clockVars
    /\ UNCHANGED guiVars
    /\ UNCHANGED loopVars

ConstructCharacter == Construct("character")

ConstructWord == Construct("word")

\* one call of get_current_items
Poll ==
    /\ phase = "sync"
    /\ \E position \in Positions :
          LET r == get_current_items(position)
          IN  /\ current_index' = r.index
              /\ character_timings' = r.character_timings
              /\ items' = r.items
              /\ taken' = r.taken
              /\ emitted' = emitted \o r.taken
              /\ lastPos' = position
              /\ rel' = IF lastOp = "init" THEN "first"
                        ELSE IF lastOp = "reset" THEN "first_after_reset"
                        ELSE IF position = lastPos THEN "same"
                        ELSE IF position < lastPos THEN "less" ELSE "greater"
              /\ monotone' = IF lastOp \in {"init", "reset"} THEN TRUE
                             ELSE monotone /\ position >= lastPos
    /\ lastOp' = "poll"
    /\ UNCHANGED <<sync_mode, rewound, phase>>
    /\ UNCHANGED inputVars
    /\ UNCHANGED buildVars
    /\ UNCHANGED clockVars
    /\ UNCHANGED guiVars
    /\ UNCHANGED loopVars

\* reset that leaves current_index where it is
reset_keep ==
    /\ phase = "sync"
    /\ items' = <<>>
    /\ taken' = <<>>
    /\ emitted' = <<>>
    /\ lastOp' = "reset"
    /\ rel' = "none"
    /\ rewound' = (current_index > 0)
    /\ monotone' = TRUE
    /\ UNCHANGED <<sync_mode, current_index, character_timings, lastPos, phase>>
    /\ UNCHANGED inputVars
    /\ UNCHANGED buildVars
    /\ UNCHANGED clockVars
    /\ UNCHANGED guiVars
    /\ UNCHANGED loopVars

\* LyricsSync.reset (244-246)
reset ==
    /\ phase = "sync"
    /\ current_index' = 0
    /\ items' = <<>>
    /\ taken' = <<>>
    /\ emitted' = <<>>
    /\ lastOp' = "reset"
    /\ rel' = "none"
    /\ rewound' = (current_index > 0)
    /\ monotone' = TRUE
    /\ UNCHANGED <<sync_mode, character_timings, lastPos, phase>>
    /\ UNCHANGED inputVars
    /\ UNCHANGED buildVars
    /\ UNCHANGED clockVars
    /\ UNCHANGED guiVars
    /\ UNCHANGED loopVars

AddSyncWord == AddWordFrom(SyncGapChoices, SyncDurChoices, SyncTextChoices)

InitSync ==
    /\ words = <<>>
    /\ new_line_threshold \in SyncThresholdChoices
    /\ max_line_length = 0
    /\ phase = "input"
    /\ display_mode = "none"
    /\ timings = <<>>
    /\ SyncIdle
    /\ ClockIdle
    /\ GuiIdle
    /\ LoopIdle

NextSync ==
    \/ AddSyncWord
    \/ ConstructCharacter
    \/ ConstructWord
    \/ Poll
    \/ reset

SpecSync == InitSync /\ [][NextSync]_vars

(***************************************************************************)
(* Properties of the cursor                                                *)
(***************************************************************************)
\* number of entries of the sequence being consumed
EntryCount == Len(EntryTimes)

\* the entries (0-based) a list of consumed indices stands for, as the items the
\* character mode returns for them
CharacterItems(ix) ==
    LET t == LS_generate_character_timings(transcription_words, new_line_threshold)
    IN  [k \in 1..Len(ix) |-> <<t[ix[k] + 1][1], t[ix[k] + 1][3]>>]

\* the word items of a list of consumed indices
WordItems(ix) ==
    [k \in 1..Len(ix) |-> <<transcription_words[ix[k] + 1].text \o <<" ">>, FALSE>>]

NotNewline(it) == ~it[2]

\* the items of the last poll are the entries it consumed
ItemsAreTaken ==
    IF sync_mode = "character" THEN items = CharacterItems(taken)
    ELSE SelectSeq(items, NotNewline) = WordItems(taken)

NoDuplicates(ix) == \A a, b \in 1..Len(ix) : a # b => ix[a] # ix[b]

(***************************************************************************)
(* C2: over any sequence of polls without an intervening reset, the cursor *)
(* never returns an event whose timestamp exceeds the position passed to   *)
(* that poll, and never returns the same timeline event twice.             *)
(***************************************************************************)
C2_NoEarlyNoRepeat ==
    phase = "sync" =>
        /\ ItemsAreTaken
        /\ \A k \in 1..Len(taken) : EntryTimes[taken[k] + 1] <= lastPos
        /\ NoDuplicates(emitted)

\* several polls have returned events, the last one more than one
C2_Witness ==
    /\ phase = "sync"
    /\ lastOp = "poll"
    /\ Len(taken) > 1
    /\ Len(emitted) > Len(taken)

\* indices (0-based) of the entries with time <= p, in order
Due(p) == SelectSeq([j \in 1..EntryCount |-> j - 1], LAMBDA j : EntryTimes[j + 1] <= p)

(***************************************************************************)
(* C3: for any non-decreasing position sequence p1 <= ... <= pn polled on  *)
(* a fresh cursor, the concatenation of all returned batches is exactly    *)
(* the timeline events with timestamp <= pn, each once, in timeline order. *)
(***************************************************************************)
C3_MonotonicConsumption ==
    (phase = "sync" /\ lastOp = "poll" /\ monotone) => emitted = Due(lastPos)

(***************************************************************************)
(* C4: polling twice in succession with the same position p returns an    *)
(* empty batch on the second call, whatever the first call returned, and   *)
(* the second call leaves the cursor index unchanged.                      *)
(***************************************************************************)
C4_SamePositionTwice ==
    [][ (lastOp' = "poll" /\ rel' = "same")
            => (items' = <<>> /\ current_index' = current_index) ]_vars

\* a second poll at the position of a poll that had returned events
C4_Witness ==
    /\ phase = "sync"
    /\ lastOp = "poll"
    /\ rel = "same"
    /\ items = <<>>
    /\ current_index > 0
    /\ emitted # <<>>
    /\ EntryTimes[current_index] <= lastPos

(***************************************************************************)
(* C5: a poll whose position is less than the position of the previous     *)
(* poll returns no events and does not decrease the cursor index.          *)
(***************************************************************************)
C5_Regression ==
    [][ (lastOp' = "poll" /\ rel' = "less")
            => (items' = <<>> /\ current_index' >= current_index) ]_vars

\* a poll at an earlier position than the poll before it, with entries left
C5_Witness ==
    /\ phase = "sync"
    /\ lastOp = "poll"
    /\ rel = "less"
    /\ current_index > 0
    /\ current_index < EntryCount

(***************************************************************************)
(* C6: the cursor index is always within 0..len(timeline being consumed),  *)
(* is non-decreasing across polls, and is only ever moved backward by an   *)
(* explicit reset().                                                       *)
(***************************************************************************)
C6_IndexRange ==
    /\ [](current_index \in 0..EntryCount)
    /\ [][ /\ lastOp' = "poll" => current_index' >= current_index
           /\ current_index' < current_index => lastOp' = "reset" ]_vars

\* the index has reached the end of the sequence, and a reset has moved it back
C6_Witness ==
    /\ phase = "sync"
    /\ rewound
    /\ lastOp = "poll"
    /\ current_index = EntryCount
    /\ EntryCount > 1

(***************************************************************************)
(* C7: once the cursor index equals the timeline length, every further     *)
(* poll returns an empty batch for every position, until reset().          *)
(***************************************************************************)
C7_Done ==
    [][ (phase = "sync" /\ current_index = EntryCount /\ lastOp' = "poll")
            => (items' = <<>> /\ current_index' = EntryCount) ]_vars

\* a poll made when every entry had been consumed (it returned nothing, so the
\* index was already at the end when it was made)
C7_Witness ==
    /\ phase = "sync"
    /\ lastOp = "poll"
    /\ rel \in {"same", "less", "greater"}
    /\ taken = <<>>
    /\ EntryCount > 0
    /\ current_index = EntryCount

\* what get_current_items(position) returns on a LyricsSync just constructed
FreshPoll(position) ==
    IF sync_mode = "character"
    THEN LS_character_scan(
             LS_generate_character_timings(transcription_words, new_line_threshold),
             0, position, [items |-> <<>>, taken |-> <<>>])
    ELSE LS_word_scan(transcription_words, 0, position, new_line_threshold,
                      [items |-> <<>>, taken |-> <<>>])

(***************************************************************************)
(* C8: reset() sets the cursor index to 0 from any cursor state and leaves *)
(* the timeline unchanged, so that the polls after a reset return what a   *)
(* freshly created cursor over the same timeline returns for the same      *)
(* positions.                                                              *)
(***************************************************************************)
C8_Reset ==
    /\ [](character_timings \in
              {None, Some(LS_generate_character_timings(transcription_words,
                                                        new_line_threshold))})
    /\ [][ /\ lastOp' = "reset" =>
                /\ current_index' = 0
                /\ character_timings' = character_timings
                /\ words' = words
                /\ sync_mode' = sync_mode
                /\ new_line_threshold' = new_line_threshold
           /\ (lastOp' = "poll" /\ rel' = "first_after_reset") =>
                /\ items' = FreshPoll(lastPos').items
                /\ current_index' = FreshPoll(lastPos').index ]_vars

\* a reset of a cursor that had advanced, followed by a poll that returns events
C8_Witness ==
    /\ phase = "sync"
    /\ rewound
    /\ lastOp = "poll"
    /\ rel = "first_after_reset"
    /\ Len(items) > 1

(***************************************************************************)
(* src/core/player.py: AudioPlayer, the playback clock.                    *)
(* now is time.time(), in whole seconds; it never runs backward.           *)
(***************************************************************************)
\* AppConfig.timing_offset: negative, none, positive
OffsetChoices == { -2, 0, 1 }

\* get_position with the test of the state left out
get_position_any_state ==
    IF start_time # None
    THEN now - ValueOf(start_time) - paused_duration + timing_offset
    ELSE 0

\* AudioPlayer.get_position
get_position ==
    IF state = "playing" /\ start_time # None
    THEN now - ValueOf(start_time) - paused_duration + timing_offset
    ELSE 0

\* the history of a call of method m that raised exception e ("none": returned)
Called(m, e) ==
    /\ lastCall' = m
    /\ callFrom' = state
    /\ raised' = e

ClockRest ==
    /\ UNCHANGED <<phase, timing_offset>>
    /\ UNCHANGED inputVars
    /\ UNCHANGED buildVars
    /\ UNCHANGED syncVars
    /\ UNCHANGED <<is_playing, stop_btn, pending, main_pc, thread_pc, task_position,
                   last_position, delivered, resumed, replayed, read_paused, outcome,
                   status_var>>
    /\ UNCHANGED loopVars

\* what the calls of pygame.mixer.music do to get_busy(): load stops a stream
\* that is playing or leaves it, play starts one, unpause may find it at its end,
\* pause may or may not count as busy, stop ends it
LoadMusic == IF raised' = "none" THEN busy' \in {busy, FALSE} ELSE UNCHANGED busy

PlayMusic ==
    IF raised' # "none" THEN UNCHANGED busy
    ELSE IF state = "paused" THEN busy' \in BOOLEAN ELSE busy' = TRUE

PauseMusic == IF state = "playing" THEN busy' \in {busy, FALSE} ELSE UNCHANGED busy

StopMusic == IF initialized THEN busy' = FALSE ELSE UNCHANGED busy

\* AudioPlayer.load -> _initialize_pygame: the audio system comes up, or pygame
\* fails and AudioPlaybackError is raised
load ==
    /\ phase = "clock"
    /\ \E ok \in BOOLEAN :
          /\ initialized' = (initialized \/ ok)
          /\ Called("load", IF ok THEN "none" ELSE "AudioPlaybackError")
    /\ UNCHANGED <<state, start_time, pause_time, paused_duration, now,
                   g_phase, g_start, g_paused, g_pause_at, g_resume_at, g_pos_at_pause>>
    /\ LoadMusic
    /\ ClockRest

\* the calls made since the last stop are not of the form play (pause play)*
OffPattern ==
    /\ g_phase' = "off"
    /\ g_start' = 0
    /\ g_paused' = 0
    /\ g_pause_at' = -1
    /\ g_resume_at' = -1
    /\ g_pos_at_pause' = 0

\* what a play() that returns normally does to the history of the session
PlayHistory ==
    CASE g_phase = "none" ->
            /\ g_phase' = "playing"
            /\ g_start' = now
            /\ g_paused' = 0
            /\ UNCHANGED <<g_pause_at, g_resume_at, g_pos_at_pause>>
      [] g_phase = "paused" ->
            /\ g_phase' = "playing"
            /\ g_resume_at' = now
            /\ UNCHANGED <<g_start, g_paused, g_pause_at, g_pos_at_pause>>
      [] OTHER -> OffPattern

\* play whose resume branch assigns the paused time instead of adding it
play_assign ==
    /\ phase = "clock"
    /\ \E pygame_error \in BOOLEAN :
          IF ~initialized \/ pygame_error
          THEN /\ UNCHANGED <<state, start_time, paused_duration,
                              g_phase, g_start, g_paused, g_pause_at, g_resume_at,
                              g_pos_at_pause>>
               /\ Called("play", "AudioPlaybackError")
          ELSE /\ IF state = "paused"
                  THEN /\ paused_duration' = now - ValueOf(pause_time)
                       /\ UNCHANGED start_time
                  ELSE /\ start_time' = Some(now)
                       /\ paused_duration' = 0
               /\ state' = "playing"
               /\ PlayHistory
               /\ Called("play", "none")
    /\ UNCHANGED <<initialized, pause_time, now>>
    /\ PlayMusic
    /\ ClockRest

\* play whose start branch does not zero the paused time
play_keep_paused ==
    /\ phase = "clock"
    /\ \E pygame_error \in BOOLEAN :
          IF ~initialized \/ pygame_error
          THEN /\ UNCHANGED <<state, start_time, paused_duration,
                              g_phase, g_start, g_paused, g_pause_at, g_resume_at,
                              g_pos_at_pause>>
               /\ Called("play", "AudioPlaybackError")
          ELSE /\ IF state = "paused"
                  THEN /\ paused_duration' = paused_duration + (now - ValueOf(pause_time))
                       /\ UNCHANGED start_time
                  ELSE /\ start_time' = Some(now)
                       /\ UNCHANGED paused_duration
               /\ state' = "playing"
               /\ PlayHistory
               /\ Called("play", "none")
    /\ UNCHANGED <<initialized, pause_time, now>>
    /\ PlayMusic
    /\ ClockRest

\* AudioPlayer.play: raises when the audio is not loaded or pygame fails (nothing
\* has been assigned by then); otherwise resumes or starts
play ==
    /\ phase = "clock"
    /\ \E pygame_error \in BOOLEAN :
          IF ~initialized \/ pygame_error
          THEN /\ UNCHANGED <<state, start_time, paused_duration,
                              g_phase, g_start, g_paused, g_pause_at, g_resume_at,
                              g_pos_at_pause>>
               /\ Called("play", "AudioPlaybackError")
          ELSE /\ IF state = "paused"
                  THEN /\ paused_duration' = paused_duration + (now - ValueOf(pause_time))
                       /\ UNCHANGED start_time
                  ELSE /\ start_time' = Some(now)
                       /\ paused_duration' = 0
               /\ state' = "playing"
               /\ PlayHistory
               /\ Called("play", "none")
    /\ UNCHANGED <<initialized, pause_time, now>>
    /\ PlayMusic
    /\ ClockRest

\* AudioPlayer.pause
pause ==
    /\ phase = "clock"
    /\ IF state = "playing"
       THEN /\ pause_time' = Some(now)
            /\ state' = "paused"
       ELSE UNCHANGED <<pause_time, state>>
    /\ IF g_phase = "playing"
       THEN /\ g_phase' = "paused"
            /\ g_pause_at' = now
            /\ g_pos_at_pause' = get_position
            /\ UNCHANGED <<g_start, g_paused, g_resume_at>>
       ELSE OffPattern
    /\ Called("pause", "none")
    /\ UNCHANGED <<initialized, start_time, paused_duration, now>>
    /\ PauseMusic
    /\ ClockRest

\* what ends a session in the history
SessionOver ==
    /\ g_phase' = "none"
    /\ g_start' = 0
    /\ g_paused' = 0
    /\ g_pause_at' = -1
    /\ g_resume_at' = -1
    /\ g_pos_at_pause' = 0

\* stop that leaves the accumulated paused time in place
stop_keep ==
    /\ phase = "clock"
    /\ IF initialized
       THEN /\ state' = "stopped"
            /\ start_time' = None
            /\ pause_time' = None
            /\ UNCHANGED paused_duration
       ELSE UNCHANGED <<state, start_time, pause_time, paused_duration>>
    /\ SessionOver
    /\ Called("stop", "none")
    /\ UNCHANGED <<initialized, now>>
    /\ StopMusic
    /\ ClockRest

\* AudioPlayer.stop
stop ==
    /\ phase = "clock"
    /\ IF initialized
       THEN /\ state' = "stopped"
            /\ start_time' = None
            /\ pause_time' = None
            /\ paused_duration' = 0
       ELSE UNCHANGED <<state, start_time, pause_time, paused_duration>>
    /\ SessionOver
    /\ Called("stop", "none")
    /\ UNCHANGED <<initialized, now>>
    /\ StopMusic
    /\ ClockRest

\* cleanup that stops the player and leaves the audio system up
cleanup_stop_only ==
    /\ phase = "clock"
    /\ IF initialized
       THEN /\ state' = "stopped"
            /\ start_time' = None
            /\ pause_time' = None
            /\ paused_duration' = 0
            /\ UNCHANGED initialized
       ELSE UNCHANGED <<state, start_time, pause_time, paused_duration, initialized>>
    /\ SessionOver
    /\ Called("cleanup", "none")
    /\ UNCHANGED now
    /\ StopMusic
    /\ ClockRest

\* AudioPlayer.cleanup
cleanup ==
    /\ phase = "clock"
    /\ IF initialized
       THEN /\ state' = "stopped"
            /\ start_time' = None
            /\ pause_time' = None
            /\ paused_duration' = 0
            /\ initialized' = FALSE
       ELSE UNCHANGED <<state, start_time, pause_time, paused_duration, initialized>>
    /\ SessionOver
    /\ Called("cleanup", "none")
    /\ UNCHANGED now
    /\ StopMusic
    /\ ClockRest

\* one second of wall time passes
Tick ==
    /\ phase = "clock"
    /\ now < MaxNow
    /\ now' = now + 1
    /\ g_paused' = IF g_phase = "paused" THEN g_paused + 1 ELSE g_paused
    /\ lastCall' = "none"
    /\ callFrom' = "none"
    /\ raised' = "none"
    /\ UNCHANGED <<state, initialized, start_time, pause_time, paused_duration,
                   g_phase, g_start, g_pause_at, g_resume_at, g_pos_at_pause>>
    /\ UNCHANGED busy
    /\ ClockRest

\* an end of the music that moves the player to FINISHED
AudioEnds_finished ==
    /\ phase = "clock"
    /\ busy
    /\ busy' = FALSE
    /\ state' = "finished"
    /\ lastCall' = "none"
    /\ callFrom' = "none"
    /\ raised' = "none"
    /\ UNCHANGED <<initialized, start_time, pause_time, paused_duration, now,
                   g_phase, g_start, g_paused, g_pause_at, g_resume_at, g_pos_at_pause>>
    /\ ClockRest

\* the music comes to its end: get_busy() turns False, and no field of the
\* AudioPlayer is written
AudioEnds ==
    /\ phase = "clock"
    /\ busy
    /\ busy' = FALSE
    /\ lastCall' = "none"
    /\ callFrom' = "none"
    /\ raised' = "none"
    /\ UNCHANGED <<state, initialized, start_time, pause_time, paused_duration, now,
                   g_phase, g_start, g_paused, g_pause_at, g_resume_at, g_pos_at_pause>>
    /\ ClockRest

InitClock ==
    /\ phase = "clock"
    /\ InputIdle
    /\ SyncIdle
    /\ GuiIdle
    /\ LoopIdle
    /\ state = "stopped"
    /\ initialized = FALSE
    /\ start_time = None
    /\ pause_time = None
    /\ paused_duration = 0
    /\ timing_offset \in OffsetChoices
    /\ now = 0
    /\ g_phase = "none"
    /\ g_start = 0
    /\ g_paused = 0
    /\ g_pause_at = -1
    /\ g_resume_at = -1
    /\ g_pos_at_pause = 0
    /\ lastCall = "none"
    /\ callFrom = "none"
    /\ raised = "none"

NextClock ==
    \/ load
    \/ play
    \/ pause
    \/ stop
    \/ cleanup
    \/ AudioEnds
    \/ Tick

SpecClock == InitClock /\ [][NextClock]_vars

\* Scenario D of the specification: play at 0, pause at 2, play at 5, read at 6
ScenarioD ==
    /\ g_phase = "playing"
    /\ g_start = 0
    /\ g_pause_at = 2
    /\ g_resume_at = 5
    /\ g_paused = 3
    /\ now = 6

(***************************************************************************)
(* C9: after any sequence play(), (pause(), play())* on a monotone wall    *)
(* clock, position() read while Playing equals now - start_instant - (sum  *)
(* of all paused intervals) + timing_offset; the position read right after *)
(* a resume equals the position read right before the matching pause; and  *)
(* play at 0, pause at 2, play at 5, read at 6 gives 3 + offset.           *)
(***************************************************************************)
C9_Position ==
    g_phase = "playing" =>
        /\ state = "playing"
        /\ get_position = now - g_start - g_paused + timing_offset
        /\ g_resume_at = now => get_position = g_pos_at_pause
        /\ ScenarioD => get_position = 3 + timing_offset

\* Scenario D, with a timing offset
C9_Witness == ScenarioD /\ timing_offset # 0

(***************************************************************************)
(* C10: position() returns exactly 0.0 in every state other than Playing   *)
(* (Stopped, Paused), regardless of the stored instants and of             *)
(* timing_offset.                                                          *)
(***************************************************************************)
C10_ZeroUnlessPlaying == state # "playing" => get_position = 0

\* paused after some playing time, with instants stored and an offset configured
C10_Witness ==
    /\ state = "paused"
    /\ start_time # None
    /\ now > ValueOf(pause_time)
    /\ ValueOf(pause_time) > ValueOf(start_time)
    /\ paused_duration > 0
    /\ timing_offset # 0
    /\ get_position = 0

(***************************************************************************)
(* C11: play() called while the clock is already Playing fails with an     *)
(* InvalidTransitionError and leaves start_instant and                     *)
(* accumulated_paused_duration unchanged (it does not restart the clock).  *)
(***************************************************************************)
C11_PlayWhilePlaying ==
    [][(state = "playing" /\ lastCall' = "play")
          => /\ raised' = "InvalidTransitionError"
             /\ start_time' = start_time
             /\ paused_duration' = paused_duration]_vars

(***************************************************************************)
(* C12: pause() called from a state other than Playing (Stopped, already   *)
(* Paused) is reported as an InvalidTransitionError, and the clock state   *)
(* and instants are unchanged.                                             *)
(***************************************************************************)
C12_PauseElsewhere ==
    [][(state # "playing" /\ lastCall' = "pause")
          => /\ raised' = "InvalidTransitionError"
             /\ UNCHANGED <<state, start_time, pause_time, paused_duration>>]_vars

(***************************************************************************)
(* C13: stop() is accepted from every state (Stopped, Playing, Paused) and *)
(* always ends in Stopped with start_instant and pause_instant cleared and *)
(* accumulated_paused_duration = 0, so that a following play() starts a    *)
(* fresh session whose position at the instant of play equals              *)
(* timing_offset.                                                          *)
(***************************************************************************)
C13_Stop ==
    /\ [](lastCall = "stop" =>
            /\ raised = "none"
            /\ state = "stopped"
            /\ start_time = None
            /\ pause_time = None
            /\ paused_duration = 0)
    /\ [][(state = "stopped" /\ lastCall' = "play" /\ raised' = "none")
            => /\ state' = "playing"
               /\ start_time' = Some(now')
               /\ paused_duration' = 0
               /\ get_position' = timing_offset']_vars

\* a stop() that found the clock paused, after some paused time had been counted
C13_Witness ==
    /\ lastCall = "stop"
    /\ callFrom = "paused"
    /\ state = "stopped"
    /\ initialized
    /\ now >= 3

(***************************************************************************)
(* C14: in every reachable clock state with a monotone wall clock,         *)
(* position() >= min(0, timing_offset): it is never negative by more than  *)
(* the magnitude of a negative timing_offset.                              *)
(***************************************************************************)
C14_PositionFloor ==
    get_position >= (IF timing_offset < 0 THEN timing_offset ELSE 0)

\* playing again after a pause, with a negative offset and a negative position
C14_Witness ==
    /\ state = "playing"
    /\ paused_duration > 0
    /\ timing_offset < 0
    /\ get_position < 0

(***************************************************************************)
(* src/gui/application.py: the playback of GUIApplication.  The handlers   *)
(* _toggle_playback, _start_playback, _pause_playback, _stop_playback and  *)
(* _on_playback_finished run on the Tk main thread; playback_task runs on  *)
(* a thread of its own and shares the AudioPlayer and the LyricsSync with  *)
(* them, with no lock.  _stop_playback and the get_position of the task    *)
(* are split at the reads and writes of the shared fields.  Positions are  *)
(* in seconds; the cursor compares them with times in 1/600 s.             *)
(***************************************************************************)
\* the transcriptions of the GUI runs: two-letter words of 0.1 s, one ending at
\* each whole second, 0.9 s apart (above the threshold 0.8 s of DisplayConfig)
GuiGapChoices == { 540 }
GuiDurChoices == { 60 }
GuiTextChoices == { <<"b", "c">> }
\* AppConfig.timing_offset in the GUI runs
GuiOffsetChoices == { 0 }

\* a position in seconds, in the unit of the event times
ToEventTime(p) == 600 * p

playerVars == <<state, initialized, start_time, pause_time, paused_duration>>
cursorVars == <<current_index, character_timings>>
localVars  == <<task_position, last_position, read_paused>>

\* what no step of the GUI touches
GuiRestButStatus ==
    /\ UNCHANGED <<phase, sync_mode, timing_offset>>
    /\ UNCHANGED inputVars
    /\ UNCHANGED buildVars
    /\ UNCHANGED <<items, taken, emitted, lastOp, lastPos, rel, monotone, rewound>>
    /\ UNCHANGED <<g_phase, g_start, g_paused, g_pause_at, g_resume_at, g_pos_at_pause,
                   lastCall, callFrom, raised>>
    /\ UNCHANGED loopVars

\* the same for the steps that leave the status bar as it is
GuiRest ==
    /\ GuiRestButStatus
    /\ UNCHANGED status_var

AddGuiWord == AddWordFrom(GuiGapChoices, GuiDurChoices, GuiTextChoices)

\* download_task has stored current_audio_file and current_transcription, and
\* _on_download_complete has enabled the Play button; the configuration in force
OnDownloadComplete ==
    /\ phase = "input"
    /\ phase' = "gui"
    /\ sync_mode' \in {"character", "word"}
    /\ timing_offset' \in GuiOffsetChoices
    /\ UNCHANGED inputVars
    /\ UNCHANGED buildVars
    /\ UNCHANGED <<current_index, character_timings, items, taken, emitted, lastOp,
                   lastPos, rel, monotone, rewound>>
    /\ UNCHANGED <<state, initialized, start_time, pause_time, paused_duration, now,
                   g_phase, g_start, g_paused, g_pause_at, g_resume_at, g_pos_at_pause,
                   lastCall, callFrom, raised>>
    /\ status_var' = "Ready to play"
    /\ UNCHANGED <<is_playing, stop_btn, busy, pending, main_pc, thread_pc, task_position,
                   last_position, delivered, resumed, replayed, read_paused, outcome>>
    /\ UNCHANGED loopVars

\* AudioPlayer.is_playing()
player_is_playing == state = "playing" /\ busy

\* the Play/Pause button while is_playing: _toggle_playback -> _pause_playback
PauseClick ==
    /\ phase = "gui"
    /\ main_pc = "idle"
    /\ is_playing
    /\ IF state = "playing"
       THEN /\ pause_time' = Some(now)
            /\ state' = "paused"
       ELSE UNCHANGED <<pause_time, state>>
    /\ is_playing' = FALSE
    /\ UNCHANGED <<initialized, start_time, paused_duration, now>>
    /\ UNCHANGED cursorVars
    /\ UNCHANGED localVars
    /\ UNCHANGED <<stop_btn, busy, pending, main_pc, thread_pc, delivered, resumed,
                   replayed, outcome>>
    /\ status_var' = "Paused"
    /\ GuiRestButStatus

\* the Play/Pause button while not is_playing: _toggle_playback -> _start_playback
\* (which returns at once while the previous playback thread is alive)
PlayClick ==
    /\ phase = "gui"
    /\ main_pc = "idle"
    /\ ~is_playing
    /\ thread_pc = "none"
    /\ is_playing' = TRUE
    /\ stop_btn' = "normal"
    /\ thread_pc' = "load"
    /\ outcome' = "none"
    /\ UNCHANGED playerVars
    /\ UNCHANGED now
    /\ UNCHANGED cursorVars
    /\ UNCHANGED localVars
    /\ UNCHANGED <<busy, pending, main_pc, delivered, resumed, replayed>>
    /\ status_var' = "Playing..."
    /\ GuiRestButStatus

\* _stop_playback starts, from the Stop button or as the callback posted by the
\* except branch of playback_task: is_playing = False, then into player.stop()
StopBegin ==
    /\ phase = "gui"
    /\ main_pc = "idle"
    /\ \/ /\ stop_btn = "normal"
          /\ UNCHANGED pending
       \/ /\ "error" \in pending
          /\ pending' = pending \ {"error"}
    /\ is_playing' = FALSE
    /\ main_pc' = IF initialized THEN "stop_state" ELSE "stop_reset"
    /\ UNCHANGED playerVars
    /\ UNCHANGED now
    /\ UNCHANGED cursorVars
    /\ UNCHANGED localVars
    /\ UNCHANGED <<stop_btn, busy, thread_pc, delivered, resumed, replayed,
                   outcome>>
    /\ GuiRest

\* AudioPlayer.stop: pygame.mixer.music.stop(); self.state = STOPPED
StopState ==
    /\ main_pc = "stop_state"
    /\ busy' = FALSE
    /\ state' = "stopped"
    /\ main_pc' = "stop_start"
    /\ resumed' = FALSE
    /\ UNCHANGED <<initialized, start_time, pause_time, paused_duration, now>>
    /\ UNCHANGED cursorVars
    /\ UNCHANGED localVars
    /\ UNCHANGED <<is_playing, stop_btn, pending, thread_pc, delivered, replayed, outcome>>
    /\ GuiRest

\* AudioPlayer.stop: self._start_time = None
StopStart ==
    /\ main_pc = "stop_start"
    /\ start_time' = None
    /\ main_pc' = "stop_paused"
    /\ UNCHANGED <<state, initialized, pause_time, paused_duration, now>>
    /\ UNCHANGED cursorVars
    /\ UNCHANGED localVars
    /\ UNCHANGED <<is_playing, stop_btn, busy, pending, thread_pc, delivered, resumed,
                   replayed, outcome>>
    /\ GuiRest

\* AudioPlayer.stop: self._pause_time = None; self._paused_duration = 0.0
StopPaused ==
    /\ main_pc = "stop_paused"
    /\ pause_time' = None
    /\ paused_duration' = 0
    /\ main_pc' = "stop_reset"
    /\ UNCHANGED <<state, initialized, start_time, now>>
    /\ UNCHANGED cursorVars
    /\ UNCHANGED localVars
    /\ UNCHANGED <<is_playing, stop_btn, busy, pending, thread_pc, delivered, resumed,
                   replayed, outcome>>
    /\ GuiRest

\* the rest of _stop_playback: the buttons, and lyrics_sync.reset()
StopReset ==
    /\ main_pc = "stop_reset"
    /\ stop_btn' = "disabled"
    /\ current_index' = 0
    /\ main_pc' = "idle"
    /\ UNCHANGED playerVars
    /\ UNCHANGED now
    /\ UNCHANGED character_timings
    /\ UNCHANGED localVars
    /\ UNCHANGED <<is_playing, busy, pending, thread_pc, delivered, resumed, replayed,
                   outcome>>
    /\ status_var' = "Stopped"
    /\ GuiRestButStatus

\* _on_playback_finished, posted by playback_task when its loop ends
OnPlaybackFinished ==
    /\ phase = "gui"
    /\ main_pc = "idle"
    /\ "finished" \in pending
    /\ pending' = pending \ {"finished"}
    /\ is_playing' = FALSE
    /\ stop_btn' = "disabled"
    /\ UNCHANGED playerVars
    /\ UNCHANGED now
    /\ UNCHANGED cursorVars
    /\ UNCHANGED localVars
    /\ UNCHANGED <<busy, main_pc, thread_pc, delivered, resumed, replayed,
                   outcome>>
    /\ status_var' = "Finished"
    /\ GuiRestButStatus

\* the except branch of playback_task: the error box and _stop_playback are
\* posted to the main thread and the thread ends
TaskExcept ==
    /\ pending' = pending \cup {"error"}
    /\ thread_pc' = "none"
    /\ task_position' = 0
    /\ last_position' = 0
    /\ read_paused' = 0

\* playback_task: self.player.load(self.current_audio_file); loading replaces
\* the music stream, which stops it
TaskLoad ==
    /\ thread_pc = "load"
    /\ \E ok \in BOOLEAN :
          IF ok
          THEN /\ initialized' = TRUE
               /\ busy' = FALSE
               /\ thread_pc' = "play"
               /\ UNCHANGED <<pending, task_position, last_position, read_paused>>
          ELSE /\ TaskExcept
               /\ UNCHANGED <<initialized, busy>>
    /\ UNCHANGED <<state, start_time, pause_time, paused_duration, now>>
    /\ UNCHANGED cursorVars
    /\ UNCHANGED <<is_playing, stop_btn, main_pc, delivered, resumed, replayed,
                   outcome>>
    /\ GuiRest

\* playback_task: self.player.play().  Whether the stream that load() has just
\* put in place is busy after unpause() is decided by pygame, not by this code.
TaskPlay ==
    /\ thread_pc = "play"
    /\ \E pygame_error \in BOOLEAN :
          IF ~initialized \/ pygame_error
          THEN /\ TaskExcept
               /\ UNCHANGED <<state, start_time, paused_duration, busy, delivered, resumed,
                               replayed>>
          ELSE /\ IF state = "paused"
                  THEN /\ paused_duration' = paused_duration + (now - ValueOf(pause_time))
                       /\ busy' \in BOOLEAN
                       /\ resumed' = TRUE
                       /\ UNCHANGED <<start_time, delivered, replayed>>
                  ELSE /\ start_time' = Some(now)
                       /\ paused_duration' = 0
                       /\ busy' = TRUE
                       /\ resumed' = FALSE
                       /\ delivered' = {}
                       /\ replayed' = FALSE
               /\ state' = "playing"
               /\ thread_pc' = "construct"
               /\ UNCHANGED <<pending, task_position, last_position, read_paused>>
    /\ UNCHANGED <<initialized, pause_time, now>>
    /\ UNCHANGED cursorVars
    /\ UNCHANGED <<is_playing, stop_btn, main_pc, outcome>>
    /\ GuiRest

\* playback_task: self.lyrics_sync = LyricsSync(...); last_position = 0.0
TaskConstruct ==
    /\ thread_pc = "construct"
    /\ current_index' = 0
    /\ character_timings' = None
    /\ last_position' = 0
    /\ thread_pc' = "while"
    /\ UNCHANGED playerVars
    /\ UNCHANGED now
    /\ UNCHANGED <<task_position, read_paused>>
    /\ UNCHANGED <<is_playing, stop_btn, busy, pending, main_pc, delivered, resumed,
                   replayed, outcome>>
    /\ GuiRest

\* playback_task: while self.player.is_playing() and self.is_playing; when the
\* loop ends, root.after(0, self._on_playback_finished) and the thread ends
TaskWhile ==
    /\ thread_pc = "while"
    /\ IF player_is_playing /\ is_playing
       THEN /\ thread_pc' = "get_position"
            /\ UNCHANGED <<pending, last_position>>
       ELSE /\ pending' = pending \cup {"finished"}
            /\ thread_pc' = "none"
            /\ last_position' = 0
    /\ UNCHANGED playerVars
    /\ UNCHANGED now
    /\ UNCHANGED cursorVars
    /\ UNCHANGED <<task_position, read_paused>>
    /\ UNCHANGED <<is_playing, stop_btn, busy, main_pc, delivered, resumed, replayed,
                   outcome>>
    /\ GuiRest

\* get_position: if self.state == PLAYING and self._start_time is not None
TaskGetPositionTest ==
    /\ thread_pc = "get_position"
    /\ IF state = "playing" /\ start_time # None
       THEN /\ thread_pc' = "read_start"
            /\ UNCHANGED <<task_position, outcome>>
       ELSE /\ thread_pc' = "poll"
            /\ task_position' = 0
            /\ outcome' = "zero"
    /\ UNCHANGED playerVars
    /\ UNCHANGED now
    /\ UNCHANGED cursorVars
    /\ UNCHANGED <<last_position, read_paused>>
    /\ UNCHANGED <<is_playing, stop_btn, busy, pending, main_pc, delivered, resumed,
                   replayed>>
    /\ GuiRest

\* get_position: time.time() - self._start_time (a TypeError when stop() has
\* cleared _start_time since the test)
TaskReadStart ==
    /\ thread_pc = "read_start"
    /\ IF start_time = None
       THEN /\ TaskExcept
            /\ outcome' = "TypeError"
       ELSE /\ task_position' = now - ValueOf(start_time)
            /\ read_paused' = paused_duration
            /\ thread_pc' = "read_paused"
            /\ UNCHANGED <<pending, last_position, outcome>>
    /\ UNCHANGED playerVars
    /\ UNCHANGED now
    /\ UNCHANGED cursorVars
    /\ UNCHANGED <<is_playing, stop_btn, busy, main_pc, delivered, resumed,
                   replayed>>
    /\ GuiRest

\* get_position: ... - self._paused_duration + self.config.timing_offset
TaskReadPaused ==
    /\ thread_pc = "read_paused"
    /\ task_position' = task_position - paused_duration + timing_offset
    /\ outcome' = IF paused_duration = read_paused THEN "consistent" ELSE "torn"
    /\ read_paused' = 0
    /\ thread_pc' = "poll"
    /\ UNCHANGED playerVars
    /\ UNCHANGED now
    /\ UNCHANGED cursorVars
    /\ UNCHANGED last_position
    /\ UNCHANGED <<is_playing, stop_btn, busy, pending, main_pc, delivered, resumed,
                   replayed>>
    /\ GuiRest

\* playback_task: if position > last_position, the thread enters
\* self.lyrics_sync.get_current_items(position); otherwise it waits
\* character_delay and goes round the loop
TaskTest ==
    /\ thread_pc = "poll"
    /\ IF task_position > last_position
       THEN /\ thread_pc' = "in_poll"
            /\ UNCHANGED <<task_position, outcome>>
       ELSE /\ thread_pc' = "while"
            /\ task_position' = 0
            /\ outcome' = "none"
    /\ UNCHANGED playerVars
    /\ UNCHANGED now
    /\ UNCHANGED cursorVars
    /\ UNCHANGED <<last_position, read_paused>>
    /\ UNCHANGED <<is_playing, stop_btn, busy, pending, main_pc, delivered, resumed,
                   replayed>>
    /\ GuiRest

\* playback_task inside get_current_items: the scan from self.current_index as
\* it stands now, every item handed to _append_lyrics, last_position = position;
\* then the wait of character_delay
TaskPoll ==
    /\ thread_pc = "in_poll"
    /\ LET r == get_current_items(ToEventTime(task_position))
       IN  /\ current_index' = r.index
           /\ character_timings' = r.character_timings
           /\ delivered' = delivered \cup { r.taken[k] : k \in 1..Len(r.taken) }
           /\ replayed' = (replayed \/ \E k \in 1..Len(r.taken) : r.taken[k] \in delivered)
           /\ last_position' = task_position
    /\ task_position' = 0
    /\ outcome' = "none"
    /\ thread_pc' = "while"
    /\ UNCHANGED playerVars
    /\ UNCHANGED now
    /\ UNCHANGED read_paused
    /\ UNCHANGED <<is_playing, stop_btn, busy, pending, main_pc, resumed>>
    /\ GuiRest

\* the music stream reaches its end
MusicEnds ==
    /\ phase = "gui"
    /\ state = "playing"
    /\ busy
    /\ busy' = FALSE
    /\ UNCHANGED playerVars
    /\ UNCHANGED now
    /\ UNCHANGED cursorVars
    /\ UNCHANGED localVars
    /\ UNCHANGED <<is_playing, stop_btn, pending, main_pc, thread_pc, delivered, resumed,
                   replayed, outcome>>
    /\ GuiRest

\* one second of wall time passes
GuiTick ==
    /\ phase = "gui"
    /\ now < MaxGuiNow
    /\ now' = now + 1
    /\ UNCHANGED playerVars
    /\ UNCHANGED cursorVars
    /\ UNCHANGED localVars
    /\ UNCHANGED <<is_playing, stop_btn, busy, pending, main_pc, thread_pc, delivered,
                   resumed, replayed, outcome>>
    /\ GuiRest

\* nothing downloaded yet, the player and the cursor as constructed
InitGui == InitSync

NextGui ==
    \/ AddGuiWord
    \/ OnDownloadComplete
    \/ PlayClick
    \/ PauseClick
    \/ StopBegin
    \/ StopState
    \/ StopStart
    \/ StopPaused
    \/ StopReset
    \/ OnPlaybackFinished
    \/ TaskLoad
    \/ TaskPlay
    \/ TaskConstruct
    \/ TaskWhile
    \/ TaskGetPositionTest
    \/ TaskReadStart
    \/ TaskReadPaused
    \/ TaskTest
    \/ TaskPoll
    \/ MusicEnds
    \/ GuiTick

SpecGui == InitGui /\ [][NextGui]_vars

\* playback_task stands inside its polling loop
TaskInLoop ==
    thread_pc \in {"while", "get_position", "read_start", "read_paused", "poll", "in_poll"}

(***************************************************************************)
(* C15: across a pause followed by a resume of the same playback session,  *)
(* no timeline event is delivered to the renderer a second time: the       *)
(* events delivered after the resume are exactly those not yet delivered   *)
(* before the pause, so the cursor that polls after the resume stands at   *)
(* the first entry not yet delivered.                                      *)
(***************************************************************************)
C15_NoReplay ==
    /\ ~replayed
    /\ (resumed /\ TaskInLoop) => current_index = Cardinality(delivered)

(***************************************************************************)
(* C16: under every interleaving of get_position() on the polling thread   *)
(* with play(), pause() or stop() on another thread, get_position() never  *)
(* fails and returns either 0.0 or a value computed from one consistent    *)
(* (start_instant, accumulated_paused_duration) pair; it never reads the   *)
(* instants mid-transition.                                                *)
(***************************************************************************)
C16_ConsistentRead == outcome \in {"none", "zero", "consistent"}

(***************************************************************************)
(* Properties of the builders                                              *)
(***************************************************************************)
\* the events of a timeline that are not Newline events
ContentOf(t) == SelectSeq(t, LAMBDA e : ~e[3])

\* the character events the claim gives word i of ws: the k-th of its n
\* characters at s + k (e - s) / n, then a space at e unless i is the last word
WordEvents(ws, i) ==
    LET text == strip(ws[i].word)
        n    == Len(text)
        s    == ws[i].start
        e    == ws[i].end
    IN  IF n = 0 THEN <<>>
        ELSE [k \in 1..n |-> <<<<text[k]>>, s + ((k - 1) * (e - s)) \div n, FALSE>>]
             \o (IF i < Len(ws) THEN << <<<<" ">>, e, FALSE>> >> ELSE <<>>)

RECURSIVE ExpectedFrom(_, _)
ExpectedFrom(ws, i) ==
    IF i > Len(ws) THEN <<>> ELSE WordEvents(ws, i) \o ExpectedFrom(ws, i + 1)

\* H@0.0 e@0.1 l@0.2 l@0.3 o@0.4 ' '@0.5 w@0.6 o@0.68 r@0.76 l@0.84 d@0.92
ScenarioATimeline ==
    << <<<<"H">>, 0, FALSE>>, <<<<"e">>, 60, FALSE>>, <<<<"l">>, 120, FALSE>>,
       <<<<"l">>, 180, FALSE>>, <<<<"o">>, 240, FALSE>>, <<<<" ">>, 300, FALSE>>,
       <<<<"w">>, 360, FALSE>>, <<<<"o">>, 408, FALSE>>, <<<<"r">>, 456, FALSE>>,
       <<<<"l">>, 504, FALSE>>, <<<<"d">>, 552, FALSE>> >>

CharacterBuilt == phase = "built" /\ display_mode \in {"character", "sync_character"}

(***************************************************************************)
(* C17: in character granularity a word with n >= 1 characters, start s    *)
(* and end e yields exactly n character events, the k-th (k = 0..n-1)      *)
(* timestamped s + k*(e-s)/n, followed by one space event at e unless it   *)
(* is the last word; Hello 0.0-0.5, world 0.6-1.0 with the default         *)
(* thresholds yields the eleven events of scenario A and no Newline, and   *)
(* the single word I 1.0-1.1 yields exactly one event at 1.0.              *)
(***************************************************************************)
C17_CharacterEvents ==
    CharacterBuilt =>
        /\ ContentOf(timings) = ExpectedFrom(words, 1)
        /\ (words = ScenarioA /\ new_line_threshold >= 300) => timings = ScenarioATimeline
        /\ words = SingleI => timings = << <<<<"I">>, 600, FALSE>> >>

\* scenario A built by karaoke_player.py under its defaults
C17_Witness ==
    /\ phase = "built"
    /\ display_mode = "character"
    /\ words = ScenarioA
    /\ new_line_threshold = 300
    /\ max_line_length = 50
    /\ Len(timings) = 11

\* every word has a text that is not empty once trimmed (the Word of the
\* specification)
NonEmptyTexts(ws) == \A i \in 1..Len(ws) : strip(ws[i].word) # <<>>

NewlineCount(t) == Len(SelectSeq(t, LAMBDA e : e[3]))

\* the timeline of the word list without its last word
BuiltBefore ==
    BuiltBy(display_mode, SubSeq(words, 1, Len(words) - 1), new_line_threshold,
            max_line_length)

\* the gap in front of the last word
LastGap == words[Len(words)].start - words[Len(words) - 1].end

RECURSIVE LineLength(_, _)
LineLength(ws, i) ==
    IF i > Len(ws) THEN 0 ELSE Len(strip(ws[i].word)) + 1 + LineLength(ws, i + 1)

\* the words never fill 0.7 of a line: neither length rule can apply
LengthRulesIdle ==
    \/ display_mode \in {"sync_character", "sync_word", "lyrics_player"}
    \/ 10 * LineLength(words, 1) <= 7 * max_line_length

ScenarioBTimeline ==
    SubSeq(ScenarioATimeline, 1, 6) \o << <<NL, 330, TRUE>> >> \o SubSeq(ScenarioATimeline, 7, 11)

RECURSIVE Concat(_)
Concat(t) == IF t = <<>> THEN <<>> ELSE Head(t)[1] \o Concat(Tail(t))

\* the trimmed texts of a word list
TrimmedTexts(ws) == [i \in 1..Len(ws) |-> strip(ws[i].word)]

EmptyPollPositions == { -1, 0, 600 }

(***************************************************************************)
(* C21: building a timeline from an empty word list returns an empty       *)
(* timeline in every granularity (and in every playback variant), and a    *)
(* cursor over it returns an empty batch for every poll, in character and  *)
(* in word mode.                                                           *)
(***************************************************************************)
C21_EmptyWordList ==
    (phase = "built" /\ words = <<>>) =>
        /\ timings = <<>>
        /\ \A position \in EmptyPollPositions :
              /\ LS_character_scan(timings, 0, position,
                                   [items |-> <<>>, taken |-> <<>>]).items = <<>>
              /\ LS_word_scan(transcribe(words), 0, position, new_line_threshold,
                              [items |-> <<>>, taken |-> <<>>]).items = <<>>

\* the line builder has run on no word at all
C21_Witness ==
    /\ phase = "built"
    /\ display_mode = "line"
    /\ words = <<>>
    /\ timings = <<>>

(***************************************************************************)
(* C22: a Word whose end is less than its start is rejected with a         *)
(* MalformedWordError when it is constructed: no word with end < start is  *)
(* among the words a builder has worked on.                                *)
(***************************************************************************)
C22_MalformedRejected ==
    phase = "built" => \A i \in 1..Len(words) : words[i].end >= words[i].start

\* a builder that stamps its events has run (the playback variants decide the
\* breaks at display time and stamp nothing)
TimelineBuilt ==
    phase = "built" /\ display_mode \in {"character", "word", "line", "sync_character"}

\* no word ends before it starts
WellFormed(ws) == \A i \in 1..Len(ws) : ws[i].end >= ws[i].start

(***************************************************************************)
(* C23: every Newline event in every timeline has a timestamp >= 0: the    *)
(* value word.start - 0.05 is never emitted below 0, whichever rule        *)
(* (hard, soft, forced) asked for the break.  Stated for well-formed words *)
(* and a positive threshold.                                               *)
(***************************************************************************)
C23_NewlineNotBelowZero ==
    (TimelineBuilt /\ WellFormed(words) /\ new_line_threshold > 0) =>
        \A j \in 1..Len(timings) : timings[j][3] => timings[j][2] >= 0

\* index of the first event after position j that is not a Newline (0: none)
RECURSIVE NextContent(_, _)
NextContent(t, j) ==
    IF j >= Len(t) THEN 0
    ELSE IF ~t[j + 1][3] THEN j + 1 ELSE NextContent(t, j + 1)

(***************************************************************************)
(* C24: in every timeline, each Newline event's timestamp is strictly less *)
(* than the timestamp of the next content event that follows it.           *)
(***************************************************************************)
C24_NewlineBeforeContent ==
    TimelineBuilt =>
        \A j \in 1..Len(timings) :
            (timings[j][3] /\ NextContent(timings, j) # 0) =>
                timings[j][2] < timings[NextContent(timings, j)][2]

\* line granularity: a Newline between two line events, 0.05 s before the second
C24_Witness ==
    /\ phase = "built"
    /\ display_mode = "line"
    /\ Len(timings) = 3
    /\ timings[2][3]
    /\ ~timings[3][3]
    /\ timings[2][2] = timings[3][2] - NewlineLead

\* the breaks the three rules ask for in front of the words i.. of ws, the line
\* holding cll characters (each word counts for its text and one space) and
\* the word before ending at last_end
RECURSIVE RuleBreaks(_, _, _, _, _, _)
RuleBreaks(ws, i, cll, last_end, thr, mll) ==
    IF i > Len(ws) THEN <<>>
    ELSE LET gap  == ws[i].start - last_end
             n    == Len(strip(ws[i].word))
             hard == gap > thr
             soft == gap > SoftGap /\ 10 * cll > 7 * mll
             forced == cll + n > mll
             brk  == i > 1 /\ (hard \/ soft \/ forced)
         IN  <<brk>> \o RuleBreaks(ws, i + 1, (IF brk THEN 0 ELSE cll) + n + 1,
                                   ws[i].end, thr, mll)

\* word granularity: for each content event, whether a Newline stands right
\* before it
WordBreaks(t) ==
    LET idx == SelectSeq([j \in 1..Len(t) |-> j], LAMBDA j : ~t[j][3])
    IN  [k \in 1..Len(idx) |-> idx[k] > 1 /\ t[idx[k] - 1][3]]

\* number of words in the content of a line event
WordsIn(content) == 1 + Len(SelectSeq(content, LAMBDA c : c = " "))

\* line granularity: for each word, whether it opens a line event that has a
\* Newline right before it
RECURSIVE LineBreaks(_, _)
LineBreaks(t, j) ==
    IF j > Len(t) THEN <<>>
    ELSE IF t[j][3] THEN LineBreaks(t, j + 1)
    ELSE <<j > 1 /\ t[j - 1][3]>> \o [k \in 1..(WordsIn(t[j][1]) - 1) |-> FALSE]
         \o LineBreaks(t, j + 1)

\* every Newline stands between two content events
NewlinesSeparate(t) ==
    \A j \in 1..Len(t) : t[j][3] => /\ 1 < j /\ j < Len(t)
                                     /\ ~t[j - 1][3] /\ ~t[j + 1][3]

RECURSIVE RunLength(_, _)
RunLength(t, j) == IF j = 0 \/ t[j][3] THEN 0 ELSE 1 + RunLength(t, j - 1)

(***************************************************************************)
(* C26: in character granularity the forced-break check                    *)
(* current_line_length > max_line_length is evaluated per character: as    *)
(* soon as the number of characters emitted since the last break exceeds   *)
(* max_line_length the next event is a Newline, even in the middle of a    *)
(* word.  Stated for well-formed, non-blank words and a positive           *)
(* threshold.                                                              *)
(***************************************************************************)
C26_ForcedPerCharacter ==
    (/\ phase = "built"
     /\ display_mode = "character"
     /\ WellFormed(words)
     /\ NonEmptyTexts(words)
     /\ new_line_threshold > 0) =>
        \A j \in 1..(Len(timings) - 1) :
            RunLength(timings, j) > max_line_length => timings[j + 1][3]

(***************************************************************************)
(* C27: when word i starts before word i-1 ends (negative gap) the builder *)
(* treats the gap as zero: the word triggers neither a hard nor a soft     *)
(* break, for every threshold value the configuration accepts.  Stated for *)
(* the last word of a list of well-formed, non-blank words that no length  *)
(* rule applies to: it adds no Newline to the timeline of the words before *)
(* it.                                                                     *)
(***************************************************************************)
C27_NegativeGap ==
    (/\ phase = "built"
     /\ Len(words) >= 2
     /\ WellFormed(words)
     /\ NonEmptyTexts(words)
     /\ LengthRulesIdle
     /\ LastGap < 0) =>
        NewlineCount(timings) = NewlineCount(BuiltBefore)

\* a word-granularity run: the word builder of karaoke_player.py, or one of the
\* playback variants (LyricsSync in word mode, lyrics_player.py)
WordBuilt == phase = "built" /\ display_mode \in {"word", "sync_word", "lyrics_player"}

RECURSIVE LinesMatch(_, _, _)
LinesMatch(t, ws, k) ==
    IF t = <<>> THEN k = Len(ws) + 1
    ELSE LET n == WordsIn(Head(t)[1])
         IN  /\ k + n - 1 <= Len(ws)
             /\ Head(t)[1] = join(SubSeq(TrimmedTexts(ws), k, k + n - 1))
             /\ Head(t)[2] = ws[k].start
             /\ LinesMatch(Tail(t), ws, k + n)

Letters(t) == SelectSeq(t, LAMBDA e : ~e[3] /\ e[1] # <<" ">>)

\* the space events of t
Spaces(t) == SelectSeq(t, LAMBDA e : ~e[3] /\ e[1] = <<" ">>)

\* the words of ws that have a text and a word after them
Spaced(ws) ==
    SelectSeq([i \in 1..Len(ws) |-> i], LAMBDA i : strip(ws[i].word) # <<>> /\ i < Len(ws))

\* the letters of the words i.. of ws, each stamped by its rank in its word; the
\* letters of a word with end = start all at start
RECURSIVE LettersFrom(_, _)
LettersFrom(ws, i) ==
    IF i > Len(ws) THEN <<>>
    ELSE LET text == strip(ws[i].word)
             n    == Len(text)
         IN  [k \in 1..n |->
                 <<<<text[k]>>,
                   IF ws[i].end = ws[i].start THEN ws[i].start
                   ELSE ws[i].start + ((k - 1) * (ws[i].end - ws[i].start)) \div n,
                   FALSE>>]
             \o LettersFrom(ws, i + 1)

(***************************************************************************)
(* C30: degenerate words never make the character builder fail: a word     *)
(* with empty text contributes no character events and causes no division  *)
(* by zero, and a word with end = start contributes all of its characters  *)
(* stamped exactly at start.  The letters of the timeline are those of the *)
(* words that have a text, and its spaces are the ones that follow such a  *)
(* word (stamped at its end).                                              *)
(***************************************************************************)
C30_DegenerateWords ==
    CharacterBuilt =>
        /\ Letters(timings) = LettersFrom(words, 1)
        /\ Spaces(timings) = [k \in 1..Len(Spaced(words)) |->
                                 <<<<" ">>, words[Spaced(words)[k]].end, FALSE>>]

\* a blank word, then a word of two letters that ends when it starts
C30_Witness ==
    /\ phase = "built"
    /\ display_mode = "sync_character"
    /\ Len(words) = 2
    /\ strip(words[1].word) = <<>>
    /\ words[2].end = words[2].start
    /\ Len(timings) = 2
    /\ timings[1][1] = <<"b">>
    /\ timings[1][2] = words[2].start
    /\ timings[2][1] = <<"c">>
    /\ timings[2][2] = words[2].start

(***************************************************************************)
(* Further properties of the GUI session                                   *)
(***************************************************************************)
(***************************************************************************)
(* C31: for any sequence of Play / Pause / Stop actions in the GUI the     *)
(* cursor index has a single writer at a time: at most one playback thread *)
(* is alive and polling, and reset() never runs while a playback thread is *)
(* inside a poll.  While the thread stays inside get_current_items nothing *)
(* else writes current_index.                                              *)
(***************************************************************************)
C31_SingleWriter ==
    [][(thread_pc = "in_poll" /\ thread_pc' = "in_poll") => current_index' = current_index]_vars

(***************************************************************************)
(* The playback loops of the command-line players: karaoke_player.py       *)
(* play_karaoke (474-502) walks the timeline a builder returned,           *)
(* lyrics_player.py play_karaoke (179-212) walks the words themselves, and *)
(* cli/interface.py _play_karaoke (199-241) polls a LyricsSync with the    *)
(* position of the AudioPlayer.  Each runs on the only thread of its       *)
(* program; the audio ends on its own.                                     *)
(***************************************************************************)
LoopGapChoices == { 0, 600 }
LoopDurChoices == { 60 }
LoopTextChoices == { <<"a">> }
LoopThresholdChoices == { 300 }
\* timing_offset: lyrics late by a second, none, early by a second
LoopOffsetChoices == { -1, 0, 1 }

AddLoopWord == AddWordFrom(LoopGapChoices, LoopDurChoices, LoopTextChoices)

\* what no step of the loops touches
LoopRest ==
    /\ UNCHANGED inputVars
    /\ UNCHANGED <<items, taken, emitted, lastOp, lastPos, rel, monotone, rewound>>
    /\ UNCHANGED <<pause_time, paused_duration, g_phase, g_start, g_paused, g_pause_at,
                   g_resume_at, g_pos_at_pause, lastCall, callFrom, raised>>
    /\ UNCHANGED <<is_playing, stop_btn, pending, main_pc, thread_pc, task_position,
                   delivered, resumed, replayed, read_paused, outcome, status_var>>

\* pygame.mixer.music.load and play, start_time = time.time(), current_idx = 0;
\* on pygame.error the function returns before the loop
StartLoop(driver, mode, t) ==
    /\ phase = "input"
    /\ phase' = driver
    /\ display_mode' = mode
    /\ timings' = t
    /\ timing_offset' \in LoopOffsetChoices
    /\ \E pygame_error \in BOOLEAN :
          IF pygame_error
          THEN /\ loop_pc' = "done"
               /\ UNCHANGED <<start_time, busy>>
          ELSE /\ loop_pc' = "while"
               /\ start_time' = Some(now)
               /\ busy' = TRUE
    /\ current_idx' = 0
    /\ UNCHANGED <<printed, ended_seen>>
    /\ UNCHANGED <<state, initialized, now, last_position>>
    /\ UNCHANGED <<sync_mode, current_index, character_timings>>
    /\ LoopRest

\* karaoke_player.py play_karaoke up to the loop
KP_start ==
    \E mode \in {"character", "word", "line"} :
        StartLoop("karaoke_player", mode,
                  BuiltBy(mode, words, new_line_threshold, max_line_length))

\* lyrics_player.py play_karaoke up to the loop
LP_start == StartLoop("lyrics_player", "lyrics_player", <<>>)

\* elapsed = time.time() - start_time + self.config.timing_offset
elapsed == ToEventTime(now - ValueOf(start_time) + timing_offset)

\* the test of a while loop: get_busy() is called first; the loop goes on into
\* its body or leaves for the waiting loop
LoopTest(driver, condition) ==
    /\ phase = driver
    /\ loop_pc = "while"
    /\ loop_pc' = IF condition THEN "body" ELSE "wait"
    /\ ended_seen' = (ended_seen \/ ~busy)
    /\ UNCHANGED <<current_idx, printed>>
    /\ UNCHANGED <<phase, timing_offset, state, initialized, start_time, now, busy,
                   last_position>>
    /\ UNCHANGED buildVars
    /\ UNCHANGED <<sync_mode, current_index, character_timings>>
    /\ LoopRest

\* while pygame.mixer.music.get_busy(): time.sleep(0.1), then the function ends
LoopWait(driver) ==
    /\ phase = driver
    /\ loop_pc = "wait"
    /\ ~busy
    /\ loop_pc' = "done"
    /\ ended_seen' = TRUE
    /\ UNCHANGED <<current_idx, printed>>
    /\ UNCHANGED <<phase, timing_offset, state, initialized, start_time, now, busy,
                   last_position>>
    /\ UNCHANGED buildVars
    /\ UNCHANGED <<sync_mode, current_index, character_timings>>
    /\ LoopRest

\* one pass through the body: the entry at the index is printed and the index
\* moves on when the entry is due
LoopBody(driver, due) ==
    /\ phase = driver
    /\ loop_pc = "body"
    /\ IF due
       THEN /\ printed' = Append(printed, current_idx)
            /\ current_idx' = current_idx + 1
       ELSE UNCHANGED <<current_idx, printed>>
    /\ loop_pc' = "while"
    /\ UNCHANGED ended_seen
    /\ UNCHANGED <<phase, timing_offset, state, initialized, start_time, now, busy,
                   last_position>>
    /\ UNCHANGED buildVars
    /\ UNCHANGED <<sync_mode, current_index, character_timings>>
    /\ LoopRest

\* karaoke_player.py 486: while pygame.mixer.music.get_busy() and current_idx < len(timings)
KP_condition_deaf == current_idx < Len(timings)

KP_condition == busy /\ current_idx < Len(timings)

KP_while == LoopTest("karaoke_player", KP_condition)

\* karaoke_player.py 487-491: text, timing, is_newline = timings[current_idx];
\* if elapsed >= timing
KP_due_at_once == TRUE

KP_due == elapsed >= timings[current_idx + 1][2]

\* karaoke_player.py 487-498
KP_body == LoopBody("karaoke_player", KP_due)

\* karaoke_player.py 500-502
KP_wait == LoopWait("karaoke_player")

\* lyrics_player.py 186: while pygame.mixer.music.get_busy() and
\* current_word_idx < len(words)
LP_condition == busy /\ current_idx < Len(words)

LP_while == LoopTest("lyrics_player", LP_condition)

\* lyrics_player.py 190-195: word_start = word_info.get('start', 0);
\* if elapsed >= word_start
LP_due == elapsed >= words[current_idx + 1].start

\* lyrics_player.py 188-208: the word is printed, after a line break when the
\* gap calls for one
LP_body == LoopBody("lyrics_player", LP_due)

\* lyrics_player.py 210-212
LP_wait == LoopWait("lyrics_player")

\* cli/interface.py 199-210: self.player.play(), sync = LyricsSync(...),
\* last_position = 0.0 (load has succeeded; an exception of play ends the function)
CLI_start ==
    /\ phase = "input"
    /\ phase' = "cli"
    /\ sync_mode' \in {"character", "word"}
    /\ timing_offset' \in LoopOffsetChoices
    /\ \E pygame_error \in BOOLEAN :
          IF pygame_error
          THEN /\ loop_pc' = "done"
               /\ UNCHANGED <<state, initialized, start_time, busy>>
          ELSE /\ loop_pc' = "while"
               /\ initialized' = TRUE
               /\ state' = "playing"
               /\ start_time' = Some(now)
               /\ busy' = TRUE
    /\ current_index' = 0
    /\ character_timings' = None
    /\ last_position' = 0
    /\ UNCHANGED <<current_idx, printed, ended_seen>>
    /\ UNCHANGED buildVars
    /\ UNCHANGED now
    /\ LoopRest

\* cli/interface.py 212: while self.player.is_playing()
CLI_while == LoopTest("cli", player_is_playing)

\* cli/interface.py 213-227: position = self.player.get_position(); the cursor
\* is polled when the position has moved on, and what it returns is printed
CLI_body ==
    /\ phase = "cli"
    /\ loop_pc = "body"
    /\ LET position == get_position
       IN  IF position > last_position
           THEN LET r == get_current_items(ToEventTime(position))
                IN  /\ current_index' = r.index
                    /\ character_timings' = r.character_timings
                    /\ printed' = printed \o r.taken
                    /\ last_position' = position
           ELSE UNCHANGED <<current_index, character_timings, printed, last_position>>
    /\ loop_pc' = "while"
    /\ UNCHANGED <<current_idx, ended_seen>>
    /\ UNCHANGED <<phase, timing_offset, state, initialized, start_time, now, busy>>
    /\ UNCHANGED buildVars
    /\ UNCHANGED sync_mode
    /\ LoopRest

\* cli/interface.py 231-233: while self.player.is_playing(): time.sleep(0.1)
CLI_wait == LoopWait("cli")

LoopOn == phase \in {"karaoke_player", "lyrics_player", "cli"}

\* the music comes to its end: get_busy() turns False
LoopMusicEnds ==
    /\ LoopOn
    /\ busy
    /\ busy' = FALSE
    /\ UNCHANGED loopVars
    /\ UNCHANGED <<phase, timing_offset, state, initialized, start_time, now, last_position>>
    /\ UNCHANGED buildVars
    /\ UNCHANGED <<sync_mode, current_index, character_timings>>
    /\ LoopRest

\* one second of wall time passes
LoopTick ==
    /\ LoopOn
    /\ now < MaxGuiNow
    /\ now' = now + 1
    /\ UNCHANGED loopVars
    /\ UNCHANGED <<phase, timing_offset, state, initialized, start_time, busy, last_position>>
    /\ UNCHANGED buildVars
    /\ UNCHANGED <<sync_mode, current_index, character_timings>>
    /\ LoopRest

InitLoop ==
    /\ words = <<>>
    /\ new_line_threshold \in LoopThresholdChoices
    /\ max_line_length = 50
    /\ phase = "input"
    /\ display_mode = "none"
    /\ timings = <<>>
    /\ SyncIdle
    /\ ClockIdle
    /\ GuiIdle
    /\ LoopIdle

\* the steps of the loops that test and wait, and the bodies that walk a timeline
LoopStep ==
    \/ KP_while
    \/ KP_body
    \/ KP_wait
    \/ LP_while
    \/ LP_body
    \/ LP_wait
    \/ CLI_while
    \/ CLI_wait

\* what a step of CLI_body does to the position of the loop
CLI_body_returns ==
    /\ phase = "cli"
    /\ loop_pc = "body"
    /\ loop_pc' = "while"

NextLoop ==
    \/ AddLoopWord
    \/ KP_start
    \/ LP_start
    \/ CLI_start
    \/ KP_while
    \/ KP_body
    \/ KP_wait
    \/ LP_while
    \/ LP_body
    \/ LP_wait
    \/ CLI_while
    \/ CLI_body
    \/ CLI_wait
    \/ LoopMusicEnds
    \/ LoopTick

SpecLoop == InitLoop /\ [][NextLoop]_vars

\* the program keeps running: a step of a loop that can be taken is taken, and
\* the body of the loop of cli/interface.py comes back to the test
SpecLoopFair == SpecLoop /\ WF_vars(LoopStep) /\ WF_loop_pc(CLI_body_returns)

(***************************************************************************)
(* C32: the driving loop stops polling once the audio reports playback     *)
(* ended: after get_busy() / is_playing() has first returned False to the  *)
(* loop, no further entry is printed and neither index moves, and once the *)
(* audio has ended the running loop comes to its end.                      *)
(***************************************************************************)
C32_StopsPolling ==
    /\ [][ended_seen => /\ printed' = printed
                        /\ current_idx' = current_idx
                        /\ current_index' = current_index]_vars
    /\ ((loop_pc \in {"while", "body", "wait"} /\ ~busy) ~> loop_pc = "done")

\* the music ended before the second entry of the timeline was due: the loop is
\* over with one entry printed
C32_Witness ==
    /\ phase = "karaoke_player"
    /\ loop_pc = "done"
    /\ ended_seen
    /\ Len(printed) = 1
    /\ Len(timings) > 1

\* the entries the loop of karaoke_player.py or lyrics_player.py walks, and the
\* time at which entry i (0-based) is due
EventCount == IF phase = "lyrics_player" THEN Len(words) ELSE Len(timings)

EventTimeAt(i) == IF phase = "lyrics_player" THEN words[i + 1].start ELSE timings[i + 1][2]

WalksTimeline == phase \in {"karaoke_player", "lyrics_player"}

LoopRunning == WalksTimeline /\ loop_pc \in {"while", "body", "wait"}

\* an entry whose time the elapsed clock has reached has not been printed yet
DueUnprinted ==
    /\ LoopRunning
    /\ \E i \in 0..(EventCount - 1) : i >= Len(printed) /\ elapsed >= EventTimeAt(i)

(***************************************************************************)
(* C33: while the audio stays busy and the loop keeps running, every entry *)
(* of the timeline whose time the elapsed clock (wall time since the start *)
(* plus timing_offset) has reached is eventually printed; entries are      *)
(* printed in the order of the timeline, each only when elapsed >= its     *)
(* time, and what has been printed is always a prefix of the timeline.     *)
(***************************************************************************)
C33_DueEntriesPrinted ==
    /\ [](WalksTimeline =>
            /\ Len(printed) = current_idx
            /\ current_idx <= EventCount
            /\ \A k \in 1..Len(printed) : printed[k] = k - 1)
    /\ [][(WalksTimeline /\ printed' # printed) =>
            /\ printed' = Append(printed, current_idx)
            /\ elapsed >= EventTimeAt(current_idx)]_vars
    /\ (busy /\ DueUnprinted) ~> (~busy \/ ~DueUnprinted)

\* the second word of a word timeline has been printed, a second or more after
\* the first, and the music still plays
C33_Witness ==
    /\ phase = "karaoke_player"
    /\ display_mode = "word"
    /\ busy
    /\ Len(timings) >= 2
    /\ ~timings[2][3]
    /\ timings[2][2] >= 600
    /\ Len(printed) = 2

(***************************************************************************)
(* Further properties of the AudioPlayer                                   *)
(***************************************************************************)
(***************************************************************************)
(* C34: in every reachable state of the AudioPlayer, a state other than    *)
(* STOPPED implies that the audio system is initialized, PLAYING implies   *)
(* that start_time is set, PAUSED implies that start_time and pause_time   *)
(* are both set, and the accumulated paused duration is >= 0.  This holds  *)
(* for calls made one after the other (SpecClock); it is stated for the    *)
(* player the GUI drives from two threads.                                 *)
(***************************************************************************)
C34_PlayerInvariants ==
    /\ state # "stopped" => initialized
    /\ state = "playing" => start_time # None
    /\ state = "paused" => (start_time # None /\ pause_time # None)
    /\ paused_duration >= 0

\* the step in which the music ends on its own: get_busy() turns False and no
\* method of the player is called
NaturalEnd == busy /\ ~busy' /\ lastCall' = "none"

(***************************************************************************)
(* C35: the state FINISHED is unreachable: after any sequence of load,     *)
(* play, pause, stop, cleanup and natural end of the audio the state is    *)
(* one of STOPPED, PLAYING, PAUSED; the natural end of the audio leaves    *)
(* the state as it is, and afterwards, the state being PLAYING, the        *)
(* position get_position() returns goes on advancing with the wall clock.  *)
(***************************************************************************)
C35_NeverFinished ==
    /\ [](state \in {"stopped", "playing", "paused"})
    /\ [][NaturalEnd => UNCHANGED <<state, start_time, pause_time, paused_duration>>]_vars
    /\ [][(state = "playing" /\ ~busy /\ now' = now + 1) =>
            (state' = "playing" /\ get_position' = get_position + 1)]_vars

\* the music is over, the player still is in state PLAYING, and the clock has
\* ticked since: the position is 2 s past the start
C35_Witness ==
    /\ phase = "clock"
    /\ state = "playing"
    /\ ~busy
    /\ lastCall = "none"
    /\ g_phase = "playing"
    /\ g_paused = 0
    /\ get_position = 2 + timing_offset

(***************************************************************************)
(* C36: play() on an AudioPlayer that is not initialized (never loaded, or *)
(* after cleanup()) raises AudioPlaybackError and leaves state,            *)
(* start_time, pause_time and the paused duration unchanged; cleanup()     *)
(* always leaves the player STOPPED and uninitialized, and a cleanup() of  *)
(* a player that is not initialized, a second cleanup() in particular,     *)
(* changes nothing.                                                        *)
(***************************************************************************)
C36_PlayUninitialized ==
    /\ [][(~initialized /\ lastCall' = "play")
            => /\ raised' = "AudioPlaybackError"
               /\ UNCHANGED <<state, initialized, start_time, pause_time,
                              paused_duration>>]_vars
    /\ [](lastCall = "cleanup" =>
            /\ raised = "none"
            /\ state = "stopped"
            /\ ~initialized)
    /\ [][(~initialized /\ lastCall' = "cleanup")
            => UNCHANGED <<state, initialized, start_time, pause_time,
                           paused_duration>>]_vars

\* a play() that raised on a player left uninitialized, some time after the start
C36_Witness ==
    /\ phase = "clock"
    /\ lastCall = "play"
    /\ raised = "AudioPlaybackError"
    /\ ~initialized
    /\ state = "stopped"
    /\ start_time = None
    /\ now >= 2

(***************************************************************************)
(* The preferences window of the GUI (gui/application.py 403-456): Save    *)
(* writes the chosen display mode into config.display, the object the      *)
(* LyricsSync reads its mode from on every call of get_current_items.      *)
(***************************************************************************)
\* save_preferences with the other display mode chosen
save_preferences ==
    /\ phase = "sync"
    /\ sync_mode' = IF sync_mode = "character" THEN "word" ELSE "character"
    /\ UNCHANGED <<current_index, character_timings, items, taken, emitted, lastOp,
                   lastPos, rel, monotone, rewound, phase>>
    /\ UNCHANGED inputVars
    /\ UNCHANGED buildVars
    /\ UNCHANGED clockVars
    /\ UNCHANGED guiVars
    /\ UNCHANGED loopVars

NextPrefs ==
    \/ AddSyncWord
    \/ ConstructCharacter
    \/ ConstructWord
    \/ Poll
    \/ reset
    \/ save_preferences

SpecPrefs == InitSync /\ [][NextPrefs]_vars

\* the sequence get_current_items consumes in the mode in force
ConsumedSequence ==
    IF sync_mode = "character"
    THEN IF character_timings # None THEN ValueOf(character_timings)
         ELSE LS_generate_character_timings(transcription_words, new_line_threshold)
    ELSE transcription_words

\* the letters of the words from word k on
RECURSIVE WordLettersFrom(_, _)
WordLettersFrom(tws, k) ==
    IF k > Len(tws) THEN <<>> ELSE tws[k].text \o WordLettersFrom(tws, k + 1)

\* the letters current_index leaves to be shown
LettersLeft ==
    IF sync_mode = "character"
    THEN Concat(Letters(SubSeq(ConsumedSequence, current_index + 1, Len(ConsumedSequence))))
    ELSE WordLettersFrom(transcription_words, current_index + 1)

(***************************************************************************)
(* C37: if the display mode is changed between two polls of the same       *)
(* LyricsSync (preferences saved during playback), the shared              *)
(* current_index still denotes the same position in the lyrics: the        *)
(* letters left to be shown are the same before and after the change (no   *)
(* word's text is emitted twice, no word is skipped) and the index stays   *)
(* within the bounds of the sequence being consumed.                       *)
(***************************************************************************)
C37_ModeChange ==
    /\ [](phase = "sync" => current_index <= Len(ConsumedSequence))
    /\ [][(phase = "sync" /\ sync_mode' # sync_mode) => LettersLeft' = LettersLeft]_vars

(***************************************************************************)
(* C38: the playback-finished handler of the GUI runs only when the audio  *)
(* collaborator reported that playback ended: neither a pause nor an       *)
(* explicit stop causes the session to be reported as Finished or the      *)
(* final status set by the pause / stop to be overwritten.  The status bar *)
(* turns to "Finished" only from a status other than "Paused" and          *)
(* "Stopped", with the player still in state PLAYING and the music over.   *)
(***************************************************************************)
C38_FinishedOnlyAtEnd ==
    [][(status_var' = "Finished" /\ status_var # "Finished")
          => /\ status_var \notin {"Paused", "Stopped"}
             /\ state = "playing"
             /\ ~busy]_vars

(***************************************************************************)
(* Further properties of the builders                                      *)
(***************************************************************************)
\* number of characters of the content events in a row that end at position j
RECURSIVE RunChars(_, _)
RunChars(t, j) == IF j = 0 \/ t[j][3] THEN 0 ELSE Len(t[j][1]) + RunChars(t, j - 1)

\* number of words in these events
RECURSIVE RunWords(_, _)
RunWords(t, j) ==
    IF j = 0 \/ t[j][3] THEN 0
    ELSE (IF display_mode = "line" THEN WordsIn(t[j][1]) ELSE 1) + RunWords(t, j - 1)

\* length of the text shown since the last break, up to event j: the words
\* joined by single spaces, without the trailing space of word granularity
ShownLength(t, j) ==
    IF display_mode = "line" THEN RunChars(t, j) + RunLength(t, j) - 1
    ELSE RunChars(t, j) - 1

(***************************************************************************)
(* C39: in word and line granularity, the text emitted between two         *)
(* consecutive breaks (the words joined by single spaces, without the      *)
(* trailing space) never exceeds max_line_length characters, unless it     *)
(* consists of a single word that is itself longer than max_line_length.   *)
(***************************************************************************)
C39_LineWithinLimit ==
    (phase = "built" /\ display_mode \in {"word", "line"}) =>
        \A j \in 1..Len(timings) :
            ~timings[j][3] =>
                \/ ShownLength(timings, j) <= max_line_length
                \/ RunWords(timings, j) = 1

\* bc, a, a in word granularity with lines of 3: the break comes before the
\* second word, and the line a a fills the three characters
C39_Witness ==
    /\ phase = "built"
    /\ display_mode = "word"
    /\ words = ShortWords
    /\ max_line_length = 3
    /\ Len(timings) = 4
    /\ timings[2][3]
    /\ ~timings[3][3]
    /\ ShownLength(timings, 4) = 3

====
